---- MODULE Spec2Model ----
(***************************************************************************)
(* A model of bowser's raster-stack access layer (readers.py), of its tile *)
(* post-processing algorithms and RasterGroup (titiler.py), of the chart   *)
(* endpoint (main.py) and of the serving process (cli.py, config.py,       *)
(* server.py).                                                             *)
(*                                                                         *)
(* Arrays are records [err, shape, data, mask]: data and mask are the      *)
(* row-major flattening of the array, mask[i] = TRUE means "masked"        *)
(* (numpy convention).  Floating-point values are carried as integers;     *)
(* NaN and Python's None are two reserved values outside the data range.   *)
(***************************************************************************)
EXTENDS Integers, Sequences, FiniteSets, TLC

----------------------------------------------------------------------------
(* Bounds of the model *)

MaxStack == 3        \* longest file list
MaxThreads == 3      \* largest num_threads / num_parallel_open
Rows == 2            \* raster height
Cols == 2            \* raster width

(* Reserved values *)
NoneVal == -9000     \* Python None (nodata unset, slice bound omitted)
NaN == -9001         \* float NaN

----------------------------------------------------------------------------
(* Sequence helpers *)

RECURSIVE FlattenSeq(_)
FlattenSeq(ss) == IF ss = <<>> THEN <<>> ELSE Head(ss) \o FlattenSeq(Tail(ss))

Max(a, b) == IF a >= b THEN a ELSE b

Min(a, b) == IF a <= b THEN a ELSE b

----------------------------------------------------------------------------
(* The files on disk.  File f in 1..MaxStack is a readable single-band     *)
(* raster of Rows x Cols pixels; path 0 does not exist.  Every pixel of     *)
(* every file holds a different value, so a result tells where each of its *)
(* elements was read from.                                                  *)

Files == 1..MaxStack

Paths == 0..MaxStack

Exists(f) == f \in Files

PixelValue(f, r, c) == f * 100 + r * 10 + c

\* src.nodatavals[band - 1] of file f: file 2 declares the value of its
\* pixel (0, 0) as nodata, file 3 declares NaN, the other files declare none.
FileNodata(f) == IF f = 2 THEN PixelValue(2, 0, 0) ELSE IF f = 3 THEN NaN ELSE NoneVal

----------------------------------------------------------------------------
(* numpy arrays *)

Arr(shape, data, mask) == [err |-> "ok", shape |-> shape, data |-> data, mask |-> mask]

Raised(e) == [err |-> e, shape |-> <<>>, data |-> <<>>, mask |-> <<>>]

IsErr(a) == a.err # "ok"

\* np.squeeze / ndarray.squeeze: every axis of length 1 is removed.
SqueezeShapeBug(shape) == IF Len(shape) > 0 /\ shape[1] = 1 THEN Tail(shape) ELSE shape

SqueezeShape(shape) == SelectSeq(shape, LAMBDA n : n # 1)

squeeze(a) == IF IsErr(a) THEN a ELSE Arr(SqueezeShape(a.shape), a.data, a.mask)

\* np.stack(arrays, axis=0) of equally shaped arrays.  numpy's stack and
\* concatenate return a MaskedArray for MaskedArray inputs but do not keep
\* the input masks: the result has no masked element.
np_stack(arrays) ==
    LET data == FlattenSeq([k \in 1..Len(arrays) |-> arrays[k].data])
    IN Arr(<<Len(arrays)>> \o arrays[1].shape, data, [i \in 1..Len(data) |-> FALSE])

----------------------------------------------------------------------------
(* Python slices and indexes.  A key is [kind, start, stop, step] with     *)
(* kind "int" (the integer is in start), "slice" or "ellipsis".            *)

IntKey(i) == [kind |-> "int", start |-> i, stop |-> NoneVal, step |-> NoneVal]

SliceKey(a, b, s) == [kind |-> "slice", start |-> a, stop |-> b, step |-> s]

Ellipsis == [kind |-> "ellipsis", start |-> NoneVal, stop |-> NoneVal, step |-> NoneVal]

\* readers.py _ensure_slices._parse
ensure_slice(key) ==
    CASE key.kind = "int" -> SliceKey(key.start, key.start + 1, NoneVal)
      [] key.kind = "ellipsis" -> SliceKey(NoneVal, NoneVal, NoneVal)
      [] OTHER -> key

\* slice.indices(length): the (start, stop, step) that range() is given.
SliceIndices(s, length) ==
    LET step == IF s.step = NoneVal THEN 1 ELSE s.step
        lower == IF step < 0 THEN -1 ELSE 0
        upper == IF step < 0 THEN length - 1 ELSE length
        clamp(v) == IF v < 0 THEN Max(v + length, lower) ELSE Min(v, upper)
        start == IF s.start = NoneVal THEN (IF step < 0 THEN upper ELSE lower)
                 ELSE clamp(s.start)
        stop == IF s.stop = NoneVal THEN (IF step < 0 THEN lower ELSE upper)
                ELSE clamp(s.stop)
    IN <<start, stop, step>>

\* list(range(start, stop, step))
RECURSIVE RangeList(_, _, _)
RangeList(start, stop, step) ==
    IF (step > 0 /\ start >= stop) \/ (step < 0 /\ start <= stop) THEN <<>>
    ELSE <<start>> \o RangeList(start + step, stop, step)

----------------------------------------------------------------------------
(* Georeferencing.  Every file is north-up with square pixels of PixelSize *)
(* CRS units; its CRS has ProjScale units per degree.  File 3 is shifted   *)
(* by one pixel to the east: nothing in the code checks that the members   *)
(* of a stack are co-registered.                                           *)

PixelSize == 3

ProjScale == 2

FileTransform(f) ==
    [x0 |-> IF f = 3 THEN PixelSize ELSE 0, y0 |-> Rows * PixelSize,
     a |-> PixelSize, e |-> 0 - PixelSize]

\* Transformer.from_crs(4326, crs, always_xy=True).transform(lon, lat)
transformer_from_lonlat(lon, lat) == <<ProjScale * lon, ProjScale * lat>>

\* rasterio's DatasetReader.index(x, y): the inverse affine transform,
\* floored to the cell that holds the point.  (\div rounds down.)
src_index(t, x, y) == <<(t.y0 - y) \div (0 - t.e), (x - t.x0) \div t.a>>

----------------------------------------------------------------------------
(* RasterReader *)

\* RasterReader.from_file: the metadata probed from the file.  The caller's
\* nodata wins unless it is falsy (None or 0): `nodata or src.nodatavals[..]`.
from_file(filename, band, nodata, keep_open) ==
    [filename |-> filename, band |-> band,
     shape |-> <<Rows, Cols>>,
     transform |-> FileTransform(filename),
     nodata |-> IF nodata # NoneVal /\ nodata # 0 THEN nodata ELSE FileNodata(filename),
     keep_open |-> keep_open]

\* RasterReader._lonlat_to_rowcol
lonlat_to_rowcol(reader, lon, lat) ==
    LET xy == transformer_from_lonlat(lon, lat)
    IN src_index(reader.transform, xy[1], xy[2])

\* rasterio.windows.Window.from_slices(rows, cols, height, width) for one
\* axis: <<offset, length>>.  An omitted bound is the edge of the raster and
\* a negative bound counts from the far edge.
WindowAxis(s, size) ==
    LET off0 == IF s.start = NoneVal THEN 0 ELSE s.start
        stop0 == IF s.stop = NoneVal THEN size ELSE s.stop
        off == IF off0 < 0 THEN off0 + size ELSE off0
        stop == IF stop0 < 0 THEN stop0 + size ELSE stop0
    IN <<off, Max(stop - off, 0)>>

InRaster(w, size) == w[1] >= 0 /\ w[2] >= 1 /\ w[1] + w[2] <= size

\* src.read(band, window=window): the pixels of the window, row-major.  A
\* window that is empty or not inside the raster is left to the raster
\* library, which is taken to refuse it.
src_read(f, rw, cw, shape) ==
    IF ~(InRaster(rw, shape[1]) /\ InRaster(cw, shape[2])) THEN Raised("RasterioIOError")
    ELSE LET h == rw[2]
             w == cw[2]
             data == [i \in 1..(h * w) |->
                        PixelValue(f, rw[1] + ((i - 1) \div w), cw[1] + ((i - 1) % w))]
         IN Arr(<<h, w>>, data, [i \in 1..(h * w) |-> FALSE])

\* readers.py _mask_array: NaN nodata masks the NaN elements
\* (np.ma.masked_invalid), any other nodata the elements equal to it.
mask_array(arr, nodata_value) ==
    Arr(arr.shape, arr.data,
        [i \in 1..Len(arr.data) |->
            IF nodata_value = NaN THEN arr.data[i] = NaN
            ELSE arr.data[i] # NaN /\ arr.data[i] = nodata_value])

\* a[::r_step, ::c_step] of a 2-D array, for steps >= 1
Subsample(a, r_step, c_step) ==
    LET h == a.shape[1]
        w == a.shape[2]
        h2 == (h + r_step - 1) \div r_step
        w2 == (w + c_step - 1) \div c_step
        src(i) == (((i - 1) \div w2) * r_step) * w + (((i - 1) % w2) * c_step) + 1
    IN Arr(<<h2, w2>>, [i \in 1..(h2 * w2) |-> a.data[src(i)]],
           [i \in 1..(h2 * w2) |-> a.mask[src(i)]])

StepOr1(s) == IF s.step = NoneVal \/ s.step = 0 THEN 1 ELSE s.step

\* RasterReader.__getitem__ with key (rows, cols).  With keep_open the band
\* is read from the held dataset and then once more from a freshly opened
\* one (the second read is not in an else branch); both give the same pixels.
\* rio.open raises for a file that is no longer where it was when the handle
\* was made.
RasterReaderGetItem(reader, rows, cols) ==
    LET r_slice == ensure_slice(rows)
        c_slice == ensure_slice(cols)
        rw == WindowAxis(r_slice, reader.shape[1])
        cw == WindowAxis(c_slice, reader.shape[2])
        out == src_read(reader.filename, rw, cw, reader.shape)
        out_masked == IF reader.nodata # NoneVal THEN mask_array(out, reader.nodata) ELSE out
    IN IF ~Exists(reader.filename) THEN Raised("RasterioIOError")
       ELSE IF IsErr(out) THEN out
       ELSE squeeze(Subsample(out_masked, StepOr1(r_slice), StepOr1(c_slice)))

----------------------------------------------------------------------------
(* BaseStackReader / RasterStackReader *)

NoStack == [file_list |-> <<>>, readers |-> <<>>, num_threads |-> 0, nodata |-> NoneVal]

\* readers.py lines 424-427: the stack-wide nodata is the members' nodata
\* when they all report the same one, else the caller's.
\* nds is a Python set: equal values are one element, but each file's NaN
\* is a float object of its own and no NaN equals another, so every reader
\* whose nodata is NaN adds an element.
StackNodata(readers, nodata) ==
    LET nums == {readers[i].nodata : i \in 1..Len(readers)} \ {NaN}
        nans == {i \in 1..Len(readers) : readers[i].nodata = NaN}
    IN IF Cardinality(nums) + Cardinality(nans) = 1
       THEN (IF nans # {} THEN NaN ELSE CHOOSE v \in nums : TRUE)
       ELSE nodata

\* cls(file_list, readers, num_threads=num_threads, nodata=nodata)
MakeStack(file_list, readers, num_threads, nodata) ==
    [file_list |-> file_list, readers |-> readers, num_threads |-> num_threads,
     nodata |-> StackNodata(readers, nodata)]

\* BaseStackReader.shape
StackShape(st) == <<Len(st.file_list)>> \o st.readers[1].shape

\* readers[i] of a Python list: a negative i counts from the end.
InList(i, n) == i >= 0 - n /\ i < n

ListPos(i, n) == IF i < 0 THEN i + n + 1 ELSE i + 1

\* _read_3d lines 298-306: the selected bands, 0-based.
BandIdxs(bands, total_num_bands) ==
    IF bands.kind = "slice"
    THEN LET ix == SliceIndices(bands, total_num_bands) IN RangeList(ix[1], ix[2], ix[3])
    ELSE <<bands.start>>

\* The task of one band, readers[i][r_slice, c_slice]
ReadBand(readers, i, r_slice, c_slice) ==
    IF ~InList(i, Len(readers)) THEN Raised("IndexError")
    ELSE RasterReaderGetItem(readers[ListPos(i, Len(readers))], r_slice, c_slice)

FirstErr(arrays) ==
    LET bad == {k \in 1..Len(arrays) : IsErr(arrays[k])}
    IN arrays[CHOOSE k \in bad : \A j \in bad : k <= j]

\* np.stack of the reads that did not raise
StackReadsSkipFailed(arrays) ==
    LET good == SelectSeq(arrays, LAMBDA a : ~IsErr(a))
    IN IF Len(good) = 0 THEN Raised("ValueError") ELSE squeeze(np_stack(good))

\* np.squeeze(np.stack(list_of_reads, axis=0)); the first read that raised,
\* in list order, is the error of the whole; np.stack refuses an empty list.
StackReads(arrays) ==
    IF \E k \in 1..Len(arrays) : IsErr(arrays[k]) THEN FirstErr(arrays)
    ELSE IF Len(arrays) = 0 THEN Raised("ValueError")
    ELSE squeeze(np_stack(arrays))

\* _read_3d lines 284-296: the key as (bands, r_slice, c_slice), or the
\* TypeError of a malformed key.
KeyOk(key) == Len(key) \in {1, 3} /\ key[1].kind \in {"slice", "int"}

NormKey(key) ==
    LET k3 == IF Len(key) = 1
              THEN <<key[1], SliceKey(NoneVal, NoneVal, NoneVal),
                     SliceKey(NoneVal, NoneVal, NoneVal)>>
              ELSE key
    IN <<k3[1], ensure_slice(k3[2]), ensure_slice(k3[3])>>

\* Where a finished task's value goes: executor.map yields the futures in
\* submission order, so task k's value is the k-th of list(results).
StoreInCompletionOrder(res, k, v) ==
    LET free == {j \in 1..Len(res) : res[j].err = "pending"}
    IN [res EXCEPT ![CHOOSE j \in free : \A m \in free : j <= m] = v]

StoreResult(res, k, v) == [res EXCEPT ![k] = v]

----------------------------------------------------------------------------
VARIABLES
    stack,      \* the RasterStackReader, or NoStack
    pc,         \* where the running call is
    call,       \* the running call and its arguments
    band_idxs,  \* _read_3d's band_idxs
    fut,        \* the pool's futures, in submission order
    results,    \* the value of each future / the list being built
    out,        \* what the call returned or raised
    overtaken,  \* history: a task of this call ended before an older one did
    open_args,  \* the arguments of the running from_file_list
    opened,     \* from_file_list: the outcome of each open task
    readers_acc, \* from_file_list: the list thread_map has built so far
    cr,         \* the CustomReader: its input and its open sources
    tile_img,   \* the primary tile as self.dataset.tile decoded it
    mask_layer_img, \* the mask tile as self.mask.tile decoded it
    tile_ret,   \* what CustomReader.tile returned
    tile_err,   \* what the tile request raised, or "none"
    alg,        \* the algorithm applied last, with its parameters
    alg_in,     \* the tile it was given
    alg_out,    \* the tile it returned
    wrapped,    \* Rewrap's result for the tile that is now rewrapped again
    rg,         \* the RasterGroup of the registry, or NoGroup
    req,        \* the request being answered from it
    resp,       \* what the request was answered with
    handle,     \* a RasterReader used on its own, or NoHandle
    fds,        \* the descriptors of its file: opened so far, open now
    last_op,    \* the operation made last on it and what it cost
    environ,    \* os.environ of the serving process
    app,        \* bowser.main once imported: its settings and data sources
    server,     \* the BowserServer object
    threads,    \* the state of every server thread started so far
    raised      \* what the last call on the BowserServer raised

vars == <<stack, pc, call, band_idxs, fut, results, out, overtaken,
          open_args, opened, readers_acc, cr, tile_img, mask_layer_img, tile_ret,
          tile_err,
          alg, alg_in, alg_out, wrapped, rg, req, resp,
          handle, fds, last_op, environ, app, server, threads, raised>>

stackVars == <<stack, pc, call, band_idxs, fut, results, out, overtaken,
               open_args, opened, readers_acc>>

tileVars == <<cr, tile_img, mask_layer_img, tile_ret, tile_err>>

algVars == <<alg, alg_in, alg_out, wrapped>>

groupVars == <<rg, req, resp>>

handleVars == <<handle, fds, last_op>>

serverVars == <<environ, app, server, threads, raised>>

restVars == <<handleVars, serverVars>>

coreVars == <<stackVars, tileVars, algVars, groupVars>>

nonStackVars == <<tileVars, algVars, groupVars, restVars>>

openVars == <<open_args, opened, readers_acc>>

readVars == <<call, band_idxs, results, overtaken>>

Pending == Raised("pending")

NoCall == [op |-> "none", key |-> <<>>, lon |-> 0, lat |-> 0]

NoOut == Raised("none")

NoArgs == [file_list |-> <<>>, bands |-> <<>>, keep_open |-> FALSE, num_threads |-> 0,
           nodata |-> NoneVal, num_parallel_open |-> 0]

\* rio_tiler.models.ImageData: array.data, array.mask (TRUE = masked), and
\* the georeferencing that goes with them
Img(data, masked, crs, bounds, assets) ==
    [data |-> data, masked |-> masked, crs |-> crs, bounds |-> bounds, assets |-> assets]

NoImg == Img(<<>>, <<>>, "none", <<>>, <<>>)

NoReader == [state |-> "none", data |-> "none", mask |-> "none", mask_min_value |-> 0,
             dataset_open |-> FALSE, mask_open |-> FALSE, closes |-> 0]

\* No CustomReader exists and no tile has been asked for.
TileIdle ==
    /\ cr = NoReader
    /\ tile_img = NoImg
    /\ mask_layer_img = NoImg
    /\ tile_ret = NoImg
    /\ tile_err = "none"

NoAlg == [name |-> "none", shift |-> 0, nan_to_zero |-> FALSE]

\* No algorithm has been applied.
NoGroup == [name |-> "none", file_list |-> <<>>, file_date_fmt |-> "none", dates |-> <<>>]

NoReq == [op |-> "none", lon |-> NoneVal, lat |-> NoneVal, ref_lon |-> NoneVal,
          ref_lat |-> NoneVal, values |-> <<>>, ref_values |-> <<>>]

\* A value of a response that is an int, a str or None
IntLabel(i) == [kind |-> "int", int |-> i, str |-> <<>>]

StrLabel(chars) == [kind |-> "str", int |-> 0, str |-> chars]

NoneLabel == [kind |-> "None", int |-> 0, str |-> <<>>]

NoResp == [op |-> "none", err |-> "none", x_values |-> <<>>, reference_date |-> NoneLabel,
           data |-> <<>>]

\* No RasterGroup is registered and no request is being answered.
GroupIdle ==
    /\ rg = NoGroup
    /\ req = NoReq
    /\ resp = NoResp

AlgIdle ==
    /\ alg = NoAlg
    /\ alg_in = NoImg
    /\ alg_out = NoImg
    /\ wrapped = NoImg

\* No stack exists and no stack operation runs.
StackIdle ==
    /\ stack = NoStack
    /\ pc = "idle"
    /\ call = NoCall
    /\ band_idxs = <<>>
    /\ fut = <<>>
    /\ results = <<>>
    /\ out = NoOut
    /\ overtaken = FALSE
    /\ open_args = NoArgs
    /\ opened = <<>>
    /\ readers_acc = <<>>

NullReader == [filename |-> 0, band |-> 0, shape |-> <<0, 0>>,
               transform |-> [x0 |-> 0, y0 |-> 0, a |-> 0, e |-> 0],
               nodata |-> NoneVal, keep_open |-> FALSE]

\* No RasterReader is used on its own.
NoHandle == [state |-> "none", reader |-> NullReader, nodata_arg |-> NoneVal]

NoOp == [op |-> "none", opened |-> 0, closed |-> 0, reads |-> 0, out |-> NoOut]

HandleIdle ==
    /\ handle = NoHandle
    /\ fds = 0
    /\ last_op = NoOp

Unset == "<unset>"

\* os.environ without any of bowser's variables
CleanEnv == [DATASET_CONFIG_FILE |-> Unset, BOWSER_DATASET_CONFIG_FILE |-> Unset,
             BOWSER_STACK_DATA_FILE |-> Unset]

NoSettings == [BOWSER_DATASET_CONFIG_FILE |-> "", BOWSER_STACK_DATA_FILE |-> ""]

\* bowser.main has not been imported.
NoApp == [state |-> "none", settings |-> NoSettings, mode |-> "none", source |-> "none",
          argv_f |-> "none"]

\* No BowserServer has been made.
NoServer == [state |-> "none", stack_file |-> "", rasters_file |-> "", _server |-> 0,
             _thread |-> 0, starting |-> FALSE]

NoRaise == [op |-> "none", exc |-> "none", n |-> 0]

\* A process that has neither imported the app nor made a server.
ServerIdle ==
    /\ environ = CleanEnv
    /\ app = NoApp
    /\ server = NoServer
    /\ threads = <<>>
    /\ raised = NoRaise

----------------------------------------------------------------------------
(* Inputs of the indexing operations *)

BandKeys ==
    {IntKey(0), IntKey(-1), SliceKey(NoneVal, NoneVal, NoneVal),
     SliceKey(1, NoneVal, NoneVal), SliceKey(NoneVal, 2, NoneVal),
     SliceKey(NoneVal, NoneVal, 2), SliceKey(NoneVal, NoneVal, -1)}

\* One pixel, or a window a:b inside the axis
WindowKeys(size) ==
    {IntKey(i) : i \in 0..(size - 1)} \cup
    {SliceKey(a, b, NoneVal) : a \in 0..(size - 1), b \in 1..size}

\* The whole axis, every second pixel of it, "..."
OtherKeys == {SliceKey(NoneVal, NoneVal, NoneVal), SliceKey(NoneVal, NoneVal, 2), Ellipsis}

\* An index or a slice bound past the far edge of the axis
BeyondKeys(size) ==
    {IntKey(size), SliceKey(0, size + 1, NoneVal), SliceKey(size, size + 1, NoneVal)}

IndexKeys ==
    {<<b, r, c>> : b \in BandKeys, r \in WindowKeys(Rows), c \in WindowKeys(Cols)} \cup
    {<<SliceKey(NoneVal, NoneVal, NoneVal), r, IntKey(0)>> : r \in BeyondKeys(Rows)} \cup
    {<<SliceKey(NoneVal, NoneVal, NoneVal), IntKey(0), c>> : c \in BeyondKeys(Cols)} \cup
    {<<b, r, c>> : b \in BandKeys, r \in OtherKeys, c \in OtherKeys} \cup
    {<<b>> : b \in BandKeys} \cup
    {<<IntKey(0), IntKey(0)>>, <<Ellipsis, IntKey(0), IntKey(0)>>}

Lons == -1..(((Cols + 1) * PixelSize) \div ProjScale)

Lats == -1..((Rows * PixelSize) \div ProjScale + 1)

\* The stacks the reads are made on: files 1..n in ascending or descending
\* order, as RasterStackReader.from_file_list(file_list, bands=1) builds them.
Ascending(n) == [i \in 1..n |-> i]

Descending(n) == [i \in 1..n |-> n + 1 - i]

\* Files 1..n of which the k-th has been removed since the stack was opened:
\* its handle has the metadata probed at the time, its path is now path 0.
Vanished(n, k) == [i \in 1..n |-> IF i = k THEN 0 ELSE i]

ReadFileLists ==
    {Ascending(n) : n \in 1..MaxStack} \cup {Descending(n) : n \in 1..MaxStack} \cup
    {Vanished(n, k) : n \in 1..MaxStack, k \in 1..MaxStack}

\* (titiler.py RasterGroup.model_post_init opens its stack with bands=1,
\* keep_open=True.)
OpenedStack(file_list, num_threads) ==
    MakeStack(file_list,
              [i \in 1..Len(file_list) |-> from_file(file_list[i], 1, NoneVal, TRUE)],
              num_threads, NoneVal)

----------------------------------------------------------------------------
(* BaseStackReader.__getitem__ -> _read_3d, and RasterStackReader.read_lonlat *)

\* _read_3d up to line 308: the key is checked and unpacked, then the reads
\* are made in this thread (num_threads == 1) or handed to a thread pool.
Read3dBegin(key) ==
    IF ~KeyOk(key)
    THEN /\ pc' = "done"
         /\ out' = Raised("TypeError")
         /\ UNCHANGED <<band_idxs, fut, results>>
    ELSE LET idxs == BandIdxs(NormKey(key)[1], Len(stack.readers))
         IN /\ band_idxs' = idxs
            /\ out' = NoOut
            /\ IF stack.num_threads = 1
               THEN /\ pc' = "seq"
                    /\ results' = <<>>
                    /\ fut' = <<>>
               ELSE /\ pc' = "pool"
                    /\ results' = [k \in 1..Len(idxs) |-> Pending]
                    /\ fut' = [k \in 1..Len(idxs) |-> "queued"]

GetItem(key) ==
    /\ pc = "idle"
    /\ call' = [op |-> "getitem", key |-> key, lon |-> 0, lat |-> 0]
    /\ Read3dBegin(key)
    /\ UNCHANGED <<stack, overtaken, openVars, nonStackVars>>

\* RasterStackReader.read_lonlat: the pixel is resolved with readers[0],
\* then self[:, row, col].
LonLatKeySwapped(st, lon, lat) ==
    LET rc == lonlat_to_rowcol(st.readers[1], lon, lat)
    IN <<SliceKey(NoneVal, NoneVal, NoneVal), IntKey(rc[2]), IntKey(rc[1])>>

LonLatKey(st, lon, lat) ==
    LET rc == lonlat_to_rowcol(st.readers[1], lon, lat)
    IN <<SliceKey(NoneVal, NoneVal, NoneVal), IntKey(rc[1]), IntKey(rc[2])>>

ReadLonLat(lon, lat) ==
    /\ pc = "idle"
    /\ call' = [op |-> "read_lonlat", key |-> LonLatKey(stack, lon, lat),
                lon |-> lon, lat |-> lat]
    /\ Read3dBegin(LonLatKey(stack, lon, lat))
    /\ UNCHANGED <<stack, overtaken, openVars, nonStackVars>>

TaskValue(k) ==
    ReadBand(stack.readers, band_idxs[k], NormKey(call.key)[2], NormKey(call.key)[3])

\* line 310, one element of the list comprehension: a read that raises ends
\* the call.
SeqRead ==
    /\ pc = "seq"
    /\ Len(results) < Len(band_idxs)
    /\ LET v == TaskValue(Len(results) + 1)
       IN IF IsErr(v)
          THEN /\ pc' = "done"
               /\ out' = v
               /\ UNCHANGED results
          ELSE /\ results' = Append(results, v)
               /\ UNCHANGED <<pc, out>>
    /\ UNCHANGED <<stack, call, band_idxs, fut, overtaken, openVars, nonStackVars>>

\* line 310, np.stack of the list, and line 317
SeqStack ==
    /\ pc = "seq"
    /\ Len(results) = Len(band_idxs)
    /\ out' = StackReads(results)
    /\ pc' = "done"
    /\ UNCHANGED <<stack, call, band_idxs, fut, results, overtaken, openVars, nonStackVars>>

Running == {k \in 1..Len(fut) : fut[k] = "running"}

Queued == {k \in 1..Len(fut) : fut[k] = "queued"}

\* A pool that starts a thread for every task it is given
WorkerStartUnbounded ==
    /\ pc = "pool"
    /\ Queued # {}
    /\ fut' = [fut EXCEPT ![CHOOSE k \in Queued : \A j \in Queued : k <= j] = "running"]
    /\ UNCHANGED <<stack, pc, call, band_idxs, results, out, overtaken, openVars, nonStackVars>>

\* A pool thread takes the oldest queued task; the pool has num_threads threads.
WorkerStart ==
    /\ pc = "pool"
    /\ Queued # {}
    /\ Cardinality(Running) < stack.num_threads
    /\ fut' = [fut EXCEPT ![CHOOSE k \in Queued : \A j \in Queued : k <= j] = "running"]
    /\ UNCHANGED <<stack, pc, call, band_idxs, results, out, overtaken, openVars, nonStackVars>>

\* A running task ends, in any order: its value (or exception) is kept by
\* its future.
WorkerFinish(k) ==
    /\ pc = "pool"
    /\ k \in Running
    /\ fut' = [fut EXCEPT ![k] = "done"]
    /\ results' = StoreResult(results, k, TaskValue(k))
    /\ overtaken' = (overtaken \/ \E j \in Running : j < k)
    /\ UNCHANGED <<stack, pc, call, band_idxs, out, openVars, nonStackVars>>

\* lines 312-317: leaving the with block waits for every task; then
\* np.stack(list(results)) and np.squeeze.
Gather ==
    /\ pc = "pool"
    /\ \A k \in 1..Len(fut) : fut[k] = "done"
    /\ out' = StackReads(results)
    /\ pc' = "done"
    /\ UNCHANGED <<stack, call, band_idxs, fut, results, overtaken, openVars, nonStackVars>>

\* The caller takes the result; the stack is ready for the next call.
Return ==
    /\ pc = "done"
    /\ pc' = "idle"
    /\ call' = NoCall
    /\ band_idxs' = <<>>
    /\ fut' = <<>>
    /\ results' = <<>>
    /\ out' = NoOut
    /\ overtaken' = FALSE
    /\ UNCHANGED <<stack, openVars, nonStackVars>>

\* stack[key] for some key
Index ==
    /\ pc = "idle"
    /\ \E key \in IndexKeys : GetItem(key)

\* stack.read_lonlat(lon, lat) for some point
PointQuery ==
    /\ pc = "idle"
    /\ \E lon \in Lons, lat \in Lats : ReadLonLat(lon, lat)

InitRead ==
    /\ \E fl \in ReadFileLists, nt \in 1..MaxThreads : stack = OpenedStack(fl, nt)
    /\ pc = "idle"
    /\ call = NoCall
    /\ band_idxs = <<>>
    /\ fut = <<>>
    /\ results = <<>>
    /\ out = NoOut
    /\ overtaken = FALSE
    /\ open_args = NoArgs
    /\ opened = <<>>
    /\ readers_acc = <<>>
    /\ TileIdle
    /\ AlgIdle
    /\ GroupIdle
    /\ HandleIdle
    /\ ServerIdle

NextRead ==
    \/ Index
    \/ PointQuery
    \/ SeqRead
    \/ SeqStack
    \/ WorkerStart
    \/ \E k \in 1..MaxStack : WorkerFinish(k)
    \/ Gather
    \/ Return

SpecRead == InitRead /\ [][NextRead]_vars

----------------------------------------------------------------------------
(* RasterStackReader.from_file_list *)

\* The paths a file list is made of: a path that does not exist, a file
\* without nodata, a file with a number as nodata, a file with nodata NaN.
OpenPaths == {0, 1, 2, 3}

RECURSIVE SeqsUpTo(_, _)
SeqsUpTo(S, n) ==
    IF n = 0 THEN {<<>>}
    ELSE LET shorter == SeqsUpTo(S, n - 1)
         IN shorter \cup {Append(q, x) : q \in {t \in shorter : Len(t) = n - 1}, x \in S}

OpenFileLists == SeqsUpTo(OpenPaths, MaxStack)

Ones(n) == [i \in 1..n |-> 1]

\* bands: an int (line 410 makes it [bands] * len(file_list)), or a list,
\* which may be shorter than the file list.
BandsArgs(n) == {Ones(n)} \cup (IF n >= 1 THEN {Ones(n - 1)} ELSE {})

\* list(zip(file_list, bands)): as long as the shorter of the two
NumTasks(a) == Min(Len(a.file_list), Len(a.bands))

\* _read((f, b)) = RasterReader.from_file(f, band=b, keep_open=keep_open, ...):
\* rio.open raises for a path that cannot be opened.
OpenTask(a, k) ==
    IF Exists(a.file_list[k])
    THEN [err |-> "ok", reader |-> from_file(a.file_list[k], a.bands[k], NoneVal, a.keep_open)]
    ELSE [err |-> "RasterioIOError", reader |-> NullReader]

PendingOpen == [err |-> "pending", reader |-> NullReader]

\* Future.result() of a collected open: it re-raises what the task raised.
OpenNeverRaises(o) == FALSE

OpenRaises(o) == o.err # "ok"

\* lines 409-423: the open tasks are handed to thread_map's pool.
FromFileList(file_list, bands, keep_open, num_threads, nodata, num_parallel_open) ==
    /\ pc = "idle"
    /\ open_args' = [file_list |-> file_list, bands |-> bands, keep_open |-> keep_open,
                     num_threads |-> num_threads, nodata |-> nodata,
                     num_parallel_open |-> num_parallel_open]
    /\ fut' = [k \in 1..NumTasks(open_args') |-> "queued"]
    /\ opened' = [k \in 1..NumTasks(open_args') |-> PendingOpen]
    /\ readers_acc' = <<>>
    /\ pc' = "opening"
    /\ out' = NoOut
    /\ stack' = NoStack
    /\ UNCHANGED <<readVars, nonStackVars>>

\* A pool thread takes the oldest queued open; the pool has
\* num_parallel_open threads.
OpenStart ==
    /\ pc \in {"opening", "failing"}
    /\ Queued # {}
    /\ Cardinality(Running) < open_args.num_parallel_open
    /\ fut' = [fut EXCEPT ![CHOOSE k \in Queued : \A j \in Queued : k <= j] = "running"]
    /\ UNCHANGED <<stack, pc, out, readVars, openVars, nonStackVars>>

\* A running open ends, in any order.
OpenFinish(k) ==
    /\ pc \in {"opening", "failing"}
    /\ k \in Running
    /\ fut' = [fut EXCEPT ![k] = "done"]
    /\ opened' = [opened EXCEPT ![k] = OpenTask(open_args, k)]
    /\ UNCHANGED <<stack, pc, out, readVars, open_args, readers_acc, nonStackVars>>

\* list(ex.map(...)) takes the next result, in submission order, once its
\* task has ended.  A task that raised ends the iteration: the futures not
\* yet started are cancelled and the exception leaves thread_map.
Collect ==
    /\ pc = "opening"
    /\ Len(readers_acc) < Len(fut)
    /\ fut[Len(readers_acc) + 1] = "done"
    /\ LET o == opened[Len(readers_acc) + 1]
       IN IF OpenRaises(o)
          THEN /\ pc' = "failing"
               /\ out' = Raised(o.err)
               /\ fut' = [k \in 1..Len(fut) |-> IF fut[k] = "queued" THEN "cancelled" ELSE fut[k]]
               /\ UNCHANGED readers_acc
          ELSE /\ readers_acc' = Append(readers_acc, o.reader)
               /\ UNCHANGED <<pc, out, fut>>
    /\ UNCHANGED <<stack, readVars, open_args, opened, nonStackVars>>

\* The pool's with block ends when the running opens have ended; the
\* exception then leaves from_file_list: no stack is made.
OpenAbort ==
    /\ pc = "failing"
    /\ Running = {}
    /\ pc' = "done"
    /\ UNCHANGED <<stack, fut, out, readVars, openVars, nonStackVars>>

\* lines 424-428, with RasterStackReader.__post_init__ (readers[0] of an
\* empty list raises IndexError).
Construct ==
    /\ pc = "opening"
    /\ Len(readers_acc) = Len(fut)
    /\ pc' = "done"
    /\ IF readers_acc = <<>>
       THEN /\ out' = Raised("IndexError")
            /\ UNCHANGED stack
       ELSE /\ out' = Arr(<<>>, <<>>, <<>>)
            /\ stack' = MakeStack(open_args.file_list, readers_acc,
                                  open_args.num_threads, open_args.nodata)
    /\ UNCHANGED <<fut, readVars, openVars, nonStackVars>>

\* The caller drops what from_file_list gave it.
Drop ==
    /\ pc = "done"
    /\ pc' = "idle"
    /\ stack' = NoStack
    /\ fut' = <<>>
    /\ out' = NoOut
    /\ open_args' = NoArgs
    /\ opened' = <<>>
    /\ readers_acc' = <<>>
    /\ UNCHANGED <<readVars, nonStackVars>>

\* from_file_list is called with some arguments.
OpenStack ==
    /\ pc = "idle"
    /\ \E fl \in OpenFileLists, ko \in BOOLEAN, nt \in {1, MaxThreads},
          nd \in {NoneVal, 5}, npo \in 1..MaxThreads :
          \E b \in BandsArgs(Len(fl)) : FromFileList(fl, b, ko, nt, nd, npo)

InitOpen == StackIdle /\ TileIdle /\ AlgIdle /\ GroupIdle /\ HandleIdle /\ ServerIdle

NextOpen ==
    \/ OpenStack
    \/ OpenStart
    \/ \E k \in 1..MaxStack : OpenFinish(k)
    \/ Collect
    \/ OpenAbort
    \/ Construct
    \/ Drop

SpecOpen == InitOpen /\ [][NextOpen]_vars

----------------------------------------------------------------------------
(* CustomReader.  Mask values and thresholds are in tenths: the default    *)
(* mask_min_value 0.1 is 1.                                                *)

TilePixels == 2      \* pixels of a tile

PrimaryValues == {0, 7}

MaskValues == {-1, 0, 2, 5}

Thresholds == {-1, 0, 1, 5}

TileXs == {0, 1}

\* ImageData.mask: 255 where the pixel is valid, 0 where it is not
ImgMask(img) == [i \in 1..Len(img.masked) |-> IF img.masked[i] THEN 0 ELSE 255]

\* MaskedArray.filled(0): the masked elements become 0
filled(img, fill_value) ==
    [i \in 1..Len(img.data) |-> IF img.masked[i] THEN fill_value ELSE img.data[i]]

\* line 558: filled_mask_layer < self.input["mask_min_value"]
BelowOrAtThreshold(v, mask_min_value) == v <= mask_min_value

BelowThreshold(v, mask_min_value) == v < mask_min_value

\* lines 551-565: the three sets of bad pixels and their union
CombinedMask(img, mask_img, mask_min_value) ==
    LET bad_image_pixels == [i \in 1..Len(img.data) |-> ImgMask(img)[i] = 0]
        filled_mask_layer == filled(mask_img, 0)
        bad_mask_pixels == [i \in 1..Len(img.data) |-> filled_mask_layer[i] = 0]
        pixels_below_threshold ==
            [i \in 1..Len(img.data) |-> BelowThreshold(filled_mask_layer[i], mask_min_value)]
    IN [i \in 1..Len(img.data) |->
           bad_image_pixels[i] \/ bad_mask_pixels[i] \/ pixels_below_threshold[i]]

\* line 567: np.ma.MaskedArray(img.data, mask=combined_mask) keeps the data
NewTileDataFilled(img, combined_mask) ==
    [i \in 1..Len(img.data) |-> IF combined_mask[i] THEN 0 ELSE img.data[i]]

NewTileData(img, combined_mask) == img.data

\* CustomReader.tile, given what the two sources decode for the tile
TileResult(reader, img, mask_img) ==
    IF reader.mask # "none"
    THEN LET combined_mask == CombinedMask(img, mask_img, reader.mask_min_value)
         IN Img(NewTileData(img, combined_mask), combined_mask, img.crs, img.bounds,
                img.assets)
    ELSE img

\* CustomReader.__attrs_post_init__: the data source is opened, and the mask
\* source when input["mask"] is set.
\* Reader(path) raises for a source that cannot be opened, and the
\* exception leaves the constructor: the request has no reader.  (The data
\* source entered before stays open in the ExitStack nobody closes.)
CanOpen(path) == path # "missing.tif"

NewReader(mask, mask_min_value) ==
    /\ cr.state = "none"
    /\ cr' = [state |-> IF mask = "none" \/ CanOpen(mask) THEN "open" ELSE "failed",
              data |-> "data.tif", mask |-> mask,
              mask_min_value |-> mask_min_value,
              dataset_open |-> TRUE, mask_open |-> (mask # "none" /\ CanOpen(mask)),
              closes |-> 0]
    /\ tile_err' = IF mask = "none" \/ CanOpen(mask) THEN "none" ELSE "RasterioIOError"
    /\ UNCHANGED <<tile_img, mask_layer_img, tile_ret, stackVars, algVars, groupVars, restVars>>

\* The tiles that self.dataset.tile and self.mask.tile can decode
PrimaryTiles(x) ==
    {Img(d, m, "EPSG:3857", <<x, 0, 1>>, <<"data.tif">>) :
        d \in [1..TilePixels -> PrimaryValues], m \in [1..TilePixels -> BOOLEAN]}

MaskTiles(x) ==
    {Img(d, m, "EPSG:3857", <<x, 0, 1>>, <<"mask.tif">>) :
        d \in [1..TilePixels -> MaskValues], m \in [1..TilePixels -> BOOLEAN]}

\* CustomReader.tile(tile_x, tile_y, tile_z), with what self.dataset.tile
\* and (when there is a mask source) self.mask.tile decode for the tile
\* self.mask.tile raises for a source that opens but cannot be read.
CanRead(path) == path # "corrupt.tif"

\* CustomReader.tile has no handler around self.mask.tile: what it raises
\* leaves tile.  (mask_img is NoImg when there was nothing decoded.)
TileOutcomeFallback(reader, img, mask_img) ==
    IF reader.mask # "none" /\ mask_img = NoImg
    THEN [err |-> "none", img |-> img]
    ELSE [err |-> "none", img |-> TileResult(reader, img, mask_img)]

TileOutcome(reader, img, mask_img) ==
    IF reader.mask # "none" /\ mask_img = NoImg
    THEN [err |-> "RasterioIOError", img |-> NoImg]
    ELSE [err |-> "none", img |-> TileResult(reader, img, mask_img)]

Tile(x, img, mask_img) ==
    /\ cr.state = "open"
    /\ tile_ret = NoImg /\ tile_err = "none"
    /\ (cr.mask = "none" \/ ~CanRead(cr.mask)) = (mask_img = NoImg)
    /\ tile_img' = img
    /\ mask_layer_img' = mask_img
    /\ tile_ret' = TileOutcome(cr, img, mask_img).img
    /\ tile_err' = TileOutcome(cr, img, mask_img).err
    /\ UNCHANGED <<cr, stackVars, algVars, groupVars, restVars>>

\* The caller takes the tile; the reader can serve the next request.
Deliver ==
    /\ cr.state = "open"
    /\ tile_ret # NoImg \/ tile_err # "none"
    /\ tile_img' = NoImg
    /\ mask_layer_img' = NoImg
    /\ tile_ret' = NoImg
    /\ tile_err' = "none"
    /\ UNCHANGED <<cr, stackVars, algVars, groupVars, restVars>>

MaxCloses == 2       \* close() calls on one reader

\* self._ctx_stack.close(): the ExitStack leaves every context it entered
\* and forgets it; a stack that holds nothing closes nothing.
ExitStackClosePrimaryOnly(reader) == [reader EXCEPT !.dataset_open = FALSE]

ExitStackClose(reader) == [reader EXCEPT !.dataset_open = FALSE, !.mask_open = FALSE]

\* CustomReader.close, and __exit__ at the end of a with block, left
\* normally or by an exception; it can be called again on a closed reader.
Close ==
    /\ cr.state \in {"open", "closed"}
    /\ cr.closes < MaxCloses
    /\ cr' = [ExitStackClose(cr) EXCEPT !.state = "closed", !.closes = @ + 1]
    /\ UNCHANGED <<tile_img, mask_layer_img, tile_ret, tile_err, stackVars, algVars, groupVars, restVars>>

\* The closed reader is dropped; the next request makes a new one.
Forget ==
    /\ cr.state \in {"closed", "failed"}
    /\ cr' = NoReader
    /\ tile_img' = NoImg
    /\ mask_layer_img' = NoImg
    /\ tile_ret' = NoImg
    /\ tile_err' = "none"
    /\ UNCHANGED <<stackVars, algVars, groupVars, restVars>>

\* input["mask"]: none, a good raster, a path that cannot be opened, a
\* raster that opens but cannot be read
MaskSources == {"none", "mask.tif", "missing.tif", "corrupt.tif"}

\* A reader is made for a request, with or without a mask source.
OpenReader ==
    /\ cr.state = "none"
    /\ \E mask \in MaskSources, thr \in Thresholds : NewReader(mask, thr)

\* A tile is asked of the open reader.
TileRequest ==
    /\ cr.state = "open" /\ tile_ret = NoImg /\ tile_err = "none"
    /\ \E x \in TileXs : \E img \in PrimaryTiles(x) :
          \E mask_img \in (IF cr.mask = "none" \/ ~CanRead(cr.mask)
                            THEN {NoImg} ELSE MaskTiles(x)) :
             Tile(x, img, mask_img)

InitTile == StackIdle /\ TileIdle /\ AlgIdle /\ GroupIdle /\ HandleIdle /\ ServerIdle

NextTile ==
    \/ OpenReader
    \/ TileRequest
    \/ Deliver
    \/ Close
    \/ Forget

SpecTile == InitTile /\ [][NextTile]_vars

----------------------------------------------------------------------------
(* The tile algorithms of titiler.py.  Angles are in units of pi/4 divided *)
(* by QuarterPi: pi is 4 * QuarterPi.  A complex value is <<re, im>>.     *)

AlgPixels == 2       \* pixels of a tile given to an algorithm

QuarterPi == 1       \* units per quarter of pi

Pi == 4 * QuarterPi

IsNaN(v) == v = NaN

\* np.angle for the complex values with components in {-1, 0, 1}, where it
\* is a whole number of quarters of pi; NaN for a NaN component.
np_angle(z) ==
    LET re == z[1]
        im == z[2]
    IN IF IsNaN(re) \/ IsNaN(im) THEN NaN
       ELSE CASE im = 0 /\ re >= 0 -> 0
              [] im = 0 /\ re < 0 -> Pi
              [] im > 0 /\ re > 0 -> QuarterPi
              [] im > 0 /\ re = 0 -> 2 * QuarterPi
              [] im > 0 /\ re < 0 -> 3 * QuarterPi
              [] im < 0 /\ re > 0 -> 0 - QuarterPi
              [] im < 0 /\ re = 0 -> 0 - 2 * QuarterPi
              [] OTHER -> 0 - 3 * QuarterPi

\* np.abs of a complex value, carried as its square (the square root is
\* increasing and is 0 only at 0); NaN for a NaN component.
np_abs(z) == IF IsNaN(z[1]) \/ IsNaN(z[2]) THEN NaN ELSE z[1] * z[1] + z[2] * z[2]

\* line 54: np.logical_or(np.isnan(data), data == 0), for one element
MaskOnlyNaN(v) == IsNaN(v)

MaskAtZero(v) == IsNaN(v) \/ v = 0

\* _process_complex(img, func), with func named
process_complex(img, func) ==
    LET data == [i \in 1..Len(img.data) |->
                    IF func = "angle" THEN np_angle(img.data[i]) ELSE np_abs(img.data[i])]
        mask == [i \in 1..Len(data) |-> MaskAtZero(data[i])]
    IN Img(data, mask, img.crs, img.bounds, img.assets)

\* np.nan_to_num of a float: NaN becomes 0.0
NanToNumNoop(x) == x

nan_to_num(x) == IF IsNaN(x) THEN 0 ELSE x

\* Float subtraction: NaN if either operand is
FSubNanAsZero(a, b) == IF IsNaN(a) THEN NaN ELSE IF IsNaN(b) THEN a ELSE a - b

FSub(a, b) == IF IsNaN(a) \/ IsNaN(b) THEN NaN ELSE a - b

\* MaskedArray - scalar: the mask is kept, the unmasked elements are
\* subtracted from, the masked elements keep the data they had.
MaskedSub(img, b) ==
    [i \in 1..Len(img.data) |-> IF img.masked[i] THEN img.data[i] ELSE FSub(img.data[i], b)]

\* Shift.__call__
ShiftCall(a, img) ==
    LET shift == IF a.nan_to_zero THEN nan_to_num(a.shift) ELSE a.shift
    IN Img(MaskedSub(img, shift), img.masked, img.crs, img.bounds, img.assets)

\* Rewrap: the value reduced modulo 2 pi into (-pi, pi].  (\div rounds down.)
RewrapOneTurn(v) == IF v > Pi THEN v - 2 * Pi ELSE IF v <= 0 - Pi THEN v + 2 * Pi ELSE v

RewrapHalfOpenBelow(v) == ((v + Pi) % (2 * Pi)) - Pi

RewrapValue(v) == v + 2 * Pi * ((Pi - v) \div (2 * Pi))

RewrapCall(img) ==
    Img([i \in 1..Len(img.data) |-> RewrapValue(img.data[i])],
        img.masked, img.crs, img.bounds, img.assets)

\* The tiles handed to the algorithms
ComplexValues == {<<re, im>> : re \in {-1, 0, 1}, im \in {-1, 0, 1}} \cup {<<NaN, 0>>, <<0, NaN>>}

RealValues == {NaN, -1, 0, 2}

ShiftValues == {NaN, -1, 0, 2}

PhaseValues == (0 - 2 * Pi - QuarterPi)..(2 * Pi + QuarterPi)

AlgTiles(values) ==
    {Img(d, m, "EPSG:3857", <<0, 0, 1>>, <<"data.tif">>) :
        d \in [1..AlgPixels -> values], m \in [1..AlgPixels -> BOOLEAN]}

\* Phase.__call__
ApplyPhase(img) ==
    /\ alg' = [name |-> "phase", shift |-> 0, nan_to_zero |-> FALSE]
    /\ alg_in' = img
    /\ alg_out' = process_complex(img, "angle")
    /\ wrapped' = NoImg
    /\ UNCHANGED <<stackVars, tileVars, groupVars, restVars>>

\* Amplitude.__call__
ApplyAmplitude(img) ==
    /\ alg' = [name |-> "amplitude", shift |-> 0, nan_to_zero |-> FALSE]
    /\ alg_in' = img
    /\ alg_out' = process_complex(img, "abs")
    /\ wrapped' = NoImg
    /\ UNCHANGED <<stackVars, tileVars, groupVars, restVars>>

\* Shift(shift=..., nan_to_zero=...).__call__
ApplyShift(shift, nan_to_zero, img) ==
    /\ alg' = [name |-> "shift", shift |-> shift, nan_to_zero |-> nan_to_zero]
    /\ alg_in' = img
    /\ alg_out' = ShiftCall(alg', img)
    /\ wrapped' = NoImg
    /\ UNCHANGED <<stackVars, tileVars, groupVars, restVars>>

\* Rewrap.__call__
ApplyRewrap(img) ==
    /\ alg' = [name |-> "rewrap", shift |-> 0, nan_to_zero |-> FALSE]
    /\ alg_in' = img
    /\ alg_out' = RewrapCall(img)
    /\ wrapped' = NoImg
    /\ UNCHANGED <<stackVars, tileVars, groupVars, restVars>>

Phase ==
    /\ alg = NoAlg
    /\ \E img \in AlgTiles(ComplexValues) : ApplyPhase(img)

Amplitude ==
    /\ alg = NoAlg
    /\ \E img \in AlgTiles(ComplexValues) : ApplyAmplitude(img)

Shift ==
    /\ alg = NoAlg
    /\ \E shift \in ShiftValues, nan_to_zero \in BOOLEAN :
          \E img \in AlgTiles(RealValues) : ApplyShift(shift, nan_to_zero, img)

Rewrap ==
    /\ alg = NoAlg
    /\ \E img \in AlgTiles(PhaseValues) : ApplyRewrap(img)

\* An unwrapping of a tile: every value moved by the same k turns
unwrap(img, k) ==
    Img([i \in 1..Len(img.data) |-> img.data[i] + 2 * Pi * k],
        img.masked, img.crs, img.bounds, img.assets)

MaxTurns == 2        \* an unwrapping adds between -MaxTurns and MaxTurns turns

\* Rewrap.__call__ on an unwrapping of what Rewrap returned
ApplyRewrapAgain(k) ==
    /\ alg' = alg
    /\ alg_in' = unwrap(alg_out, k)
    /\ alg_out' = RewrapCall(unwrap(alg_out, k))
    /\ wrapped' = alg_out
    /\ UNCHANGED <<stackVars, tileVars, groupVars, restVars>>

RewrapAgain ==
    /\ alg.name = "rewrap"
    /\ wrapped = NoImg
    /\ \E k \in (0 - MaxTurns)..MaxTurns : ApplyRewrapAgain(k)

\* The processed tile goes to the encoder; the next request starts afresh.
Emit ==
    /\ alg # NoAlg
    /\ alg' = NoAlg
    /\ alg_in' = NoImg
    /\ alg_out' = NoImg
    /\ wrapped' = NoImg
    /\ UNCHANGED <<stackVars, tileVars, groupVars, restVars>>

InitAlg == StackIdle /\ TileIdle /\ AlgIdle /\ GroupIdle /\ HandleIdle /\ ServerIdle

NextAlg == Phase \/ Amplitude \/ Shift \/ Rewrap \/ RewrapAgain \/ Emit

SpecAlg == InitAlg /\ [][NextAlg]_vars

----------------------------------------------------------------------------
(* RasterGroup (titiler.py) and the chart_point endpoint (main.py).  A date *)
(* is <<year, month, day>>; a string is the sequence of its characters; a   *)
(* file name stands for the dates written in it.                            *)

DigitChars == <<"0", "1", "2", "3", "4", "5", "6", "7", "8", "9">>

\* n as width digits, zero-padded
Pad(n, width) == [i \in 1..width |-> DigitChars[((n \div (10 ^ (width - i))) % 10) + 1]]

\* d.strftime(fmt) for the two formats in use
strftime(d, fmt) ==
    IF fmt = "%Y%m%d" THEN Pad(d[1], 4) \o Pad(d[2], 2) \o Pad(d[3], 2)
    ELSE Pad(d[1], 4) \o <<"-">> \o Pad(d[2], 2) \o <<"-">> \o Pad(d[3], 2)

\* sep.join(parts)
RECURSIVE Join(_, _)
Join(parts, sep) ==
    IF Len(parts) = 0 THEN <<>>
    ELSE IF Len(parts) = 1 THEN parts[1]
    ELSE parts[1] \o sep \o Join(Tail(parts), sep)

\* _format_dates(*dates, fmt="%Y%m%d")
format_dates(dates) == Join([i \in 1..Len(dates) |-> strftime(dates[i], "%Y%m%d")], <<"_">>)

\* The dates that appear in file names
GroupDates == {<<2016, 1, 1>>, <<2016, 1, 15>>, <<2016, 2, 1>>}

Before(d, e) ==
    \/ d[1] < e[1]
    \/ d[1] = e[1] /\ d[2] < e[2]
    \/ d[1] = e[1] /\ d[2] = e[2] /\ d[3] < e[3]

\* The name of a file that has these dates in it: "u_20160101_20160201.tif"
FileName(dates) ==
    <<"u">> \o FlattenSeq([i \in 1..Len(dates) |-> <<"_">> \o strftime(dates[i], "%Y%m%d")])
            \o <<".", "t", "i", "f">>

\* File names without a date, with one date, with a reference date and a
\* later secondary date
GroupNames ==
    {FileName(<<>>), FileName(<<<<2016, 2, 1>>>>)} \cup
    {FileName(<<p[1], p[2]>>) : p \in {q \in GroupDates \X GroupDates : Before(q[1], q[2])}}

IsDigit(c) == \E n \in 1..Len(DigitChars) : DigitChars[n] = c

DigitValue(c) == (CHOOSE n \in 1..Len(DigitChars) : DigitChars[n] = c) - 1

\* datetime.strptime(chars, "%Y%m%d") of eight digits
strptime(c) ==
    <<DigitValue(c[1]) * 1000 + DigitValue(c[2]) * 100 + DigitValue(c[3]) * 10 + DigitValue(c[4]),
      DigitValue(c[5]) * 10 + DigitValue(c[6]),
      DigitValue(c[7]) * 10 + DigitValue(c[8])>>

\* opera_utils.get_dates(filename, fmt="%Y%m%d"): every run of eight digits
\* in the name, left to right, as a date
RECURSIVE get_dates(_)
get_dates(filename) ==
    IF Len(filename) < 8 THEN <<>>
    ELSE IF \A i \in 1..8 : IsDigit(filename[i])
         THEN <<strptime(SubSeq(filename, 1, 8))>> \o get_dates(SubSeq(filename, 9, Len(filename)))
         ELSE get_dates(Tail(filename))

\* RasterGroup(name=..., file_list=..., file_date_fmt=...).  The model has
\* no field file_date_fmt, so pydantic drops the argument, and
\* model_post_init opens the stack with from_file_list's default format;
\* an empty file_list fails in RasterStackReader.__post_init__.
NewGroup(file_list, file_date_fmt) ==
    /\ rg = NoGroup /\ resp.op = "none"
    /\ IF file_list = <<>>
       THEN /\ rg' = NoGroup
            /\ resp' = [NoResp EXCEPT !.op = "RasterGroup", !.err = "IndexError"]
       ELSE /\ rg' = [name |-> "group", file_list |-> file_list,
                      file_date_fmt |-> file_date_fmt,
                      dates |-> [i \in 1..Len(file_list) |-> get_dates(file_list[i])]]
            /\ resp' = [NoResp EXCEPT !.op = "RasterGroup"]
    /\ UNCHANGED <<req, stackVars, tileVars, algVars, restVars>>

\* RasterGroup.x_values (lines 119-130)
x_values(g) ==
    LET dates == g.dates
    IN IF dates = <<>>
       THEN [i \in 1..Len(g.file_list) |-> IntLabel(i - 1)]
       ELSE [i \in 1..Len(dates) |-> StrLabel(format_dates(dates[i]))]

XValues ==
    /\ rg # NoGroup /\ resp.op = "none"
    /\ resp' = [NoResp EXCEPT !.op = "x_values", !.x_values = x_values(rg)]
    /\ UNCHANGED <<rg, req, stackVars, tileVars, algVars, restVars>>

\* RasterGroup.reference_date: the first date that every file's date pair
\* shares, in ISO form, else None
reference_date_of_first(g) ==
    IF Len(g.dates[1]) = 2 THEN StrLabel(strftime(g.dates[1][1], "%Y-%m-%d")) ELSE NoneLabel

reference_date(g) ==
    IF /\ \A i \in 1..Len(g.dates) : Len(g.dates[i]) = 2
       /\ \A i, j \in 1..Len(g.dates) : g.dates[i][1] = g.dates[j][1]
    THEN StrLabel(strftime(g.dates[1][1], "%Y-%m-%d"))
    ELSE NoneLabel

ReferenceDate ==
    /\ rg # NoGroup /\ resp.op = "none"
    /\ resp' = [NoResp EXCEPT !.op = "reference_date", !.reference_date = reference_date(rg)]
    /\ UNCHANGED <<rg, req, stackVars, tileVars, algVars, restVars>>

\* chart_point's values_to_chart_data (main.py lines 271-277): the pairs of
\* zip(x_values, values) whose value is not NaN
values_to_chart_data_filter_first(xs, values) ==
    LET Keep(v) == ~IsNaN(v)
        kept == SelectSeq(values, Keep)
    IN [k \in 1..Min(Len(xs), Len(kept)) |-> [x |-> xs[k], y |-> kept[k]]]

values_to_chart_data(xs, values) ==
    LET Keep(i) == ~IsNaN(values[i])
        idx == SelectSeq([i \in 1..Min(Len(xs), Len(values)) |-> i], Keep)
    IN [k \in 1..Len(idx) |-> [x |-> xs[idx[k]], y |-> values[idx[k]]]]

\* values - ref_values of two arrays of one length
ArraySub(a, b) == [i \in 1..Len(a) |-> FSub(a[i], b[i])]

\* chart_point(dataset_name, lon, lat, ref_lon, ref_lat) in cog mode, with
\* the arrays that _get_point_values read at the point and (when both
\* ref_lon and ref_lat are given) at the reference point
ChartPoint(lon, lat, ref_lon, ref_lat, values, ref_values) ==
    LET given == ref_lon # NoneVal /\ ref_lat # NoneVal
        shifted == IF given THEN ArraySub(values, ref_values) ELSE values
    IN /\ req' = [op |-> "chart_point", lon |-> lon, lat |-> lat, ref_lon |-> ref_lon,
                  ref_lat |-> ref_lat, values |-> values,
                  ref_values |-> IF given THEN ref_values ELSE <<>>]
       /\ resp' = [NoResp EXCEPT !.op = "chart_point", !.x_values = x_values(rg),
                                 !.data = values_to_chart_data(x_values(rg), shifted)]
       /\ UNCHANGED <<rg, stackVars, tileVars, algVars, restVars>>

\* The response is sent; the next request can be answered.
Reply ==
    /\ resp.op # "none"
    /\ resp' = NoResp
    /\ req' = NoReq
    /\ UNCHANGED <<rg, stackVars, tileVars, algVars, restVars>>

\* The registry is loaded anew.
Unregister ==
    /\ rg # NoGroup /\ resp.op = "none"
    /\ rg' = NoGroup
    /\ UNCHANGED <<req, resp, stackVars, tileVars, algVars, restVars>>

GroupFileLists == SeqsUpTo(GroupNames, MaxStack)

ChartValues == {NaN, 2}

RefValues == {NaN, 1}

Register ==
    /\ rg = NoGroup /\ resp.op = "none"
    /\ \E fl \in GroupFileLists, fmt \in {"%Y%m%d", "None"} : NewGroup(fl, fmt)

ChartRequest ==
    /\ rg # NoGroup /\ resp.op = "none"
    /\ \E ref_lon \in {NoneVal, 0}, ref_lat \in {NoneVal, 0} :
          \E values \in [1..Len(rg.file_list) -> ChartValues] :
             \E ref_values \in (IF ref_lon # NoneVal /\ ref_lat # NoneVal
                                THEN [1..Len(rg.file_list) -> RefValues] ELSE {<<>>}) :
                ChartPoint(0, 0, ref_lon, ref_lat, values, ref_values)

InitGroup == StackIdle /\ TileIdle /\ AlgIdle /\ GroupIdle /\ HandleIdle /\ ServerIdle

NextGroup == Register \/ XValues \/ ReferenceDate \/ ChartRequest \/ Reply \/ Unregister

SpecGroup == InitGroup /\ [][NextGroup]_vars

----------------------------------------------------------------------------
(* A RasterReader used on its own: what each operation costs in rio.open   *)
(* calls, and the descriptors it leaves open.  fds counts the descriptors  *)
(* of the handle's file that are open between two operations.              *)

\* A value an operation returned that is not a raster window
Value(t) == Arr(<<Len(t)>>, t, [i \in 1..Len(t) |-> FALSE])

\* RasterReader.from_file and __post_init__: the file is opened for the
\* metadata probe and closed at the end of the with block (lines 199-220);
\* with keep_open, __post_init__ then opens it once more and keeps that
\* dataset in self._src (lines 223-224).
FromFile(filename, nodata, keep_open) ==
    /\ handle.state = "none"
    /\ IF Exists(filename)
       THEN /\ handle' = [state |-> "live",
                          reader |-> from_file(filename, 1, nodata, keep_open),
                          nodata_arg |-> nodata]
            /\ fds' = IF keep_open THEN 1 ELSE 0
            /\ last_op' = [op |-> "from_file", opened |-> IF keep_open THEN 2 ELSE 1,
                           closed |-> 1, reads |-> 0, out |-> Value(<<>>)]
       ELSE /\ last_op' = [op |-> "from_file", opened |-> 0, closed |-> 0, reads |-> 0,
                           out |-> Raised("RasterioIOError")]
            /\ UNCHANGED <<handle, fds>>
    /\ UNCHANGED <<coreVars, serverVars>>

\* RasterReader.__getitem__, lines 268-272: with keep_open the window is
\* read from self._src; then, keep_open or not, the file is opened, the
\* window read from it and the file closed.  A read that raises on line 269
\* ends the call before line 271.
HandleGetItem(rows, cols) ==
    /\ handle.state = "live"
    /\ LET res == RasterReaderGetItem(handle.reader, rows, cols)
           held_read == IF handle.reader.keep_open THEN 1 ELSE 0
           reopened == IF handle.reader.keep_open /\ IsErr(res) THEN 0 ELSE 1
       IN last_op' = [op |-> "getitem", opened |-> reopened, closed |-> reopened,
                      reads |-> held_read + reopened, out |-> res]
    /\ UNCHANGED <<handle, fds, coreVars, serverVars>>

\* RasterReader.bounds, lines 175-178: from self._src with keep_open, else
\* from the file opened for the query.
ReaderBounds(reader) ==
    LET t == reader.transform
    IN <<t.x0, t.y0 + reader.shape[1] * t.e, t.x0 + reader.shape[2] * t.a, t.y0>>

HandleBounds ==
    /\ handle.state = "live"
    /\ LET n == IF handle.reader.keep_open THEN 0 ELSE 1
       IN last_op' = [op |-> "bounds", opened |-> n, closed |-> n, reads |-> 0,
                      out |-> Value(ReaderBounds(handle.reader))]
    /\ UNCHANGED <<handle, fds, coreVars, serverVars>>

\* RasterReader._lonlat_to_rowcol, lines 242-246
HandleLonLatToRowCol(lon, lat) ==
    /\ handle.state = "live"
    /\ LET n == IF handle.reader.keep_open THEN 0 ELSE 1
       IN last_op' = [op |-> "lonlat_to_rowcol", opened |-> n, closed |-> n, reads |-> 0,
                      out |-> Value(lonlat_to_rowcol(handle.reader, lon, lat))]
    /\ UNCHANGED <<handle, fds, coreVars, serverVars>>

\* The handle is dropped and collected: the dataset held in self._src goes
\* with it.
HandleDrop ==
    /\ handle.state = "live"
    /\ handle' = NoHandle
    /\ fds' = 0
    /\ last_op' = NoOp
    /\ UNCHANGED <<coreVars, serverVars>>

NodataArgs == {NoneVal, 0, 5, PixelValue(1, 0, 0)}

HandleKeys(size) == WindowKeys(size) \cup OtherKeys \cup {IntKey(size)}

\* RasterReader.from_file(filename, nodata=..., keep_open=...)
OpenHandle ==
    /\ handle.state = "none"
    /\ \E f \in Paths, nd \in NodataArgs, ko \in BOOLEAN : FromFile(f, nd, ko)

\* handle[rows, cols]
HandleIndex ==
    /\ handle.state = "live"
    /\ \E rows \in HandleKeys(Rows), cols \in HandleKeys(Cols) : HandleGetItem(rows, cols)

\* handle._lonlat_to_rowcol(lon, lat)
HandleResolve ==
    /\ handle.state = "live"
    /\ \E lon \in Lons, lat \in Lats : HandleLonLatToRowCol(lon, lat)

InitHandle == StackIdle /\ TileIdle /\ AlgIdle /\ GroupIdle /\ HandleIdle /\ ServerIdle

NextHandle ==
    \/ OpenHandle
    \/ HandleIndex
    \/ HandleBounds
    \/ HandleResolve
    \/ HandleDrop

SpecHandle == InitHandle /\ [][NextHandle]_vars

----------------------------------------------------------------------------
(* A stack made by from_file_list and then read: the two thread pools *)

PoolFileLists == {Ascending(n) : n \in 1..MaxStack} \cup {<<1, 0>>}

PoolKeys ==
    {<<b>> : b \in {SliceKey(NoneVal, NoneVal, NoneVal), SliceKey(1, NoneVal, NoneVal),
                    IntKey(0)}} \cup
    {<<SliceKey(NoneVal, NoneVal, NoneVal), IntKey(0), IntKey(0)>>}

\* RasterStackReader.from_file_list(file_list, keep_open=..., num_threads=...,
\* num_parallel_open=...)
PoolOpen ==
    /\ pc = "idle" /\ stack = NoStack
    /\ \E fl \in PoolFileLists, ko \in BOOLEAN, nt \in 1..MaxThreads, npo \in 1..MaxThreads :
          FromFileList(fl, Ones(Len(fl)), ko, nt, NoneVal, npo)

\* stack[key] on the stack from_file_list returned
PoolIndex ==
    /\ pc = "idle" /\ stack # NoStack
    /\ \E key \in PoolKeys : GetItem(key)

\* What from_file_list returned or raised is dropped before any read.
PoolDrop ==
    /\ call = NoCall
    /\ Drop

InitPool == StackIdle /\ TileIdle /\ AlgIdle /\ GroupIdle /\ HandleIdle /\ ServerIdle

NextPool ==
    \/ PoolOpen
    \/ OpenStart
    \/ \E k \in 1..MaxStack : OpenFinish(k)
    \/ Collect
    \/ OpenAbort
    \/ Construct
    \/ PoolDrop
    \/ PoolIndex
    \/ SeqRead
    \/ SeqStack
    \/ WorkerStart
    \/ \E k \in 1..MaxStack : WorkerFinish(k)
    \/ Gather
    \/ Return

SpecPool == InitPool /\ [][NextPool]_vars

----------------------------------------------------------------------------
(* The serving process: `bowser run` (cli.py), Settings (config.py),       *)
(* load_data_sources (main.py) and BowserServer (server.py).  A thread is  *)
(* "booting" until uvicorn has imported the app and bound the port, then   *)
(* "listening"; "closing" once told to exit and not yet ended; "dead".     *)

MaxStarts == 3       \* server threads started in one process

MaxCalls == 4        \* start() and stop() calls made in one process

DefaultConfig == "bowser_rasters.json"

\* The JSON files that exist in the working directory
ConfigFiles == {"bowser_rasters.json", "mine.json", "ambient.json"}

\* What -f / rasters_file is given: the default, another file, no file
RastersFiles == {"bowser_rasters.json", "mine.json", "gone.json"}

StackFiles == {"", "cube.zarr"}

\* The environment the process is started in
AmbientEnvs == {CleanEnv, [CleanEnv EXCEPT !.BOWSER_DATASET_CONFIG_FILE = "ambient.json"]}

\* config.py Settings(): pydantic-settings fills each field from the
\* environment variable of the field's own name, else with its default.
Settings(env) ==
    [BOWSER_DATASET_CONFIG_FILE |->
        IF env.BOWSER_DATASET_CONFIG_FILE # Unset THEN env.BOWSER_DATASET_CONFIG_FILE
        ELSE DefaultConfig,
     BOWSER_STACK_DATA_FILE |->
        IF env.BOWSER_STACK_DATA_FILE # Unset THEN env.BOWSER_STACK_DATA_FILE ELSE ""]

\* main.py load_data_sources: the stack file first, then the JSON config if
\* it exists, else ValueError.
load_data_sources(settings, env) ==
    IF settings.BOWSER_STACK_DATA_FILE # ""
    THEN [err |-> "none", mode |-> "md", source |-> env.BOWSER_STACK_DATA_FILE]
    ELSE IF settings.BOWSER_DATASET_CONFIG_FILE \in ConfigFiles
    THEN [err |-> "none", mode |-> "cog", source |-> settings.BOWSER_DATASET_CONFIG_FILE]
    ELSE [err |-> "ValueError", mode |-> "none", source |-> "none"]

\* import bowser.main: bowser.config makes `settings` the first time it is
\* imported and stays in sys.modules; main.py line 100 then loads the data.
ImportApp(env, a) ==
    LET settings == IF a.state \in {"none", "cli"} THEN Settings(env) ELSE a.settings
        loaded == load_data_sources(settings, env)
    IN [state |-> IF loaded.err = "none" THEN "loaded" ELSE "failed",
        settings |-> settings, mode |-> loaded.mode, source |-> loaded.source,
        argv_f |-> a.argv_f]

\* cli.py run, lines 70-82: the options are put in os.environ.
CliRun(rasters_file) ==
    /\ app.state = "none" /\ server.state = "none"
    /\ environ' = [environ EXCEPT !.DATASET_CONFIG_FILE = rasters_file]
    /\ app' = [app EXCEPT !.state = "cli", !.argv_f = rasters_file]
    /\ UNCHANGED <<server, threads, raised, coreVars, handleVars>>

\* cli.py run, lines 85-91: uvicorn.run imports "bowser.main:app".
CliServe ==
    /\ app.state = "cli"
    /\ app' = ImportApp(environ, app)
    /\ UNCHANGED <<environ, server, threads, raised, coreVars, handleVars>>

\* BowserServer.__init__
NewServer(stack_file, rasters_file) ==
    /\ server.state = "none" /\ app.argv_f = "none"
    /\ server' = [state |-> "made", stack_file |-> stack_file,
                  rasters_file |-> IF rasters_file = "" THEN DefaultConfig ELSE rasters_file,
                  _server |-> 0, _thread |-> 0, starting |-> FALSE]
    /\ UNCHANGED <<environ, app, threads, raised, coreVars, handleVars>>

AlreadyRunning == "RuntimeError: Server is already running"

FailedToStart == "RuntimeError: Server failed to start"

\* BowserServer._server_is_ready: something accepts connections on the port.
Ready == \E n \in 1..Len(threads) : threads[n] = "listening"

\* BowserServer.start, lines 73-109: refused when self._server is set; else
\* the environment is set, the uvicorn server made and its thread started.
Start ==
    /\ server.state = "made" /\ ~server.starting
    /\ raised.n < MaxCalls
    /\ server._server # 0 \/ Len(threads) < MaxStarts
    /\ IF server._server # 0
       THEN /\ raised' = [op |-> "start", exc |-> AlreadyRunning, n |-> raised.n + 1]
            /\ UNCHANGED <<environ, server, threads>>
       ELSE /\ environ' = IF server.stack_file # ""
                          THEN [environ EXCEPT !.BOWSER_STACK_DATA_FILE = server.stack_file]
                          ELSE [environ EXCEPT !.BOWSER_DATASET_CONFIG_FILE = server.rasters_file]
            /\ threads' = Append(threads, "booting")
            /\ server' = [server EXCEPT !._server = Len(threads) + 1,
                                        !._thread = Len(threads) + 1, !.starting = TRUE]
            /\ raised' = [op |-> "start", exc |-> "none", n |-> raised.n + 1]
    /\ UNCHANGED <<app, coreVars, handleVars>>

\* BowserServer._run_server in thread n: uvicorn imports the app (unless the
\* process has it) and binds the port.  A failed import or a port that is
\* taken ends the thread; the exception is logged (lines 122-125).
ThreadBoot(n) ==
    /\ n \in 1..Len(threads) /\ threads[n] = "booting"
    /\ app' = IF app.state = "loaded" THEN app ELSE ImportApp(environ, app)
    /\ threads' = [threads EXCEPT ![n] = IF app'.state = "loaded" /\ ~Ready
                                          THEN "listening" ELSE "dead"]
    /\ UNCHANGED <<environ, server, raised, coreVars, handleVars>>

\* start, lines 112-118: the wait ends when the port answers ...
StartReady ==
    /\ server.starting /\ Ready
    /\ server' = [server EXCEPT !.starting = FALSE]
    /\ UNCHANGED <<environ, app, threads, raised, coreVars, handleVars>>

\* ... or when the 30 seconds are over and it does not: start raises, with
\* self._server and self._thread as line 105 and line 108 set them.
StartTimeout ==
    /\ server.starting /\ ~Ready
    /\ server' = [server EXCEPT !.starting = FALSE]
    /\ raised' = [raised EXCEPT !.exc = FailedToStart]
    /\ UNCHANGED <<environ, app, threads, coreVars, handleVars>>

\* BowserServer.stop, lines 139-146: the server is told to exit and its
\* thread joined for 5 seconds at most; joined or not, both fields are
\* cleared.  Nothing is done when self._server is None.
Stop(joined) ==
    /\ server.state = "made" /\ ~server.starting
    /\ raised.n < MaxCalls
    /\ raised' = [op |-> "stop", exc |-> "none", n |-> raised.n + 1]
    /\ IF server._server = 0
       THEN UNCHANGED <<server, threads>>
       ELSE /\ threads' = [threads EXCEPT ![server._thread] =
                              IF @ = "dead" \/ joined THEN "dead" ELSE "closing"]
            /\ server' = [server EXCEPT !._server = 0, !._thread = 0]
    /\ UNCHANGED <<environ, app, coreVars, handleVars>>

\* A server that was told to exit ends its thread once it has shut down.
ThreadExit(n) ==
    /\ n \in 1..Len(threads) /\ threads[n] = "closing"
    /\ threads' = [threads EXCEPT ![n] = "dead"]
    /\ UNCHANGED <<environ, app, server, raised, coreVars, handleVars>>

\* The process ends (its daemon threads with it); another is started.
ProcessExit(env) ==
    /\ app # NoApp \/ server # NoServer
    /\ ~server.starting
    /\ environ' = env
    /\ app' = NoApp
    /\ server' = NoServer
    /\ threads' = <<>>
    /\ raised' = NoRaise
    /\ UNCHANGED <<coreVars, handleVars>>

\* bowser run -f <rasters-file>
BowserRun ==
    /\ app.state = "none" /\ server.state = "none"
    /\ \E f \in RastersFiles : CliRun(f)

\* BowserServer(stack_file=..., rasters_file=...)
MakeServer ==
    /\ server.state = "none" /\ app.argv_f = "none"
    /\ \E sf \in StackFiles, rf \in RastersFiles \cup {""} : NewServer(sf, rf)

\* server.stop()
StopCall ==
    /\ server.state = "made" /\ ~server.starting
    /\ \E joined \in BOOLEAN : Stop(joined)

Restart ==
    /\ ~server.starting
    /\ \E env \in AmbientEnvs : ProcessExit(env)

InitServer ==
    /\ StackIdle /\ TileIdle /\ AlgIdle /\ GroupIdle /\ HandleIdle
    /\ environ \in AmbientEnvs
    /\ app = NoApp
    /\ server = NoServer
    /\ threads = <<>>
    /\ raised = NoRaise

NextServer ==
    \/ BowserRun
    \/ CliServe
    \/ MakeServer
    \/ Start
    \/ \E n \in 1..MaxStarts : ThreadBoot(n)
    \/ StartReady
    \/ StartTimeout
    \/ StopCall
    \/ \E n \in 1..MaxStarts : ThreadExit(n)
    \/ Restart

SpecServer == InitServer /\ [][NextServer]_vars

----------------------------------------------------------------------------
(* Properties of the stack reads *)

FullSlice == SliceKey(NoneVal, NoneVal, NoneVal)

\* The sequential path of _read_3d (line 310) as one expression
Read3dSequential(st, key) ==
    LET nk == NormKey(key)
        idxs == BandIdxs(nk[1], Len(st.readers))
    IN StackReads([k \in 1..Len(idxs) |-> ReadBand(st.readers, idxs[k], nk[2], nk[3])])

\* The file a pixel value was read from (see PixelValue)
FileOfValue(v) == v \div 100

\* The elements of slot k of a result of n slots
Slot(a, k, n) ==
    LET sz == Len(a.data) \div n
    IN [j \in 1..sz |-> a.data[(k - 1) * sz + j]]

ReadDone == pc = "done" /\ KeyOk(call.key)

\* C1: for a stack indexed with a band slice and a pixel window, slot k of
\* the result holds the data read from the k-th selected band, whatever the
\* order in which the workers' reads end and whatever num_threads is; the
\* result is the one the sequential path computes.  While the pool runs,
\* every finished task's value sits in the slot of its own band.
C1_BandOrder ==
    /\ pc = "pool" =>
          \A k \in 1..Len(fut) : fut[k] = "done" =>
              results[k] = ReadBand(stack.readers, band_idxs[k],
                                    NormKey(call.key)[2], NormKey(call.key)[3])
    /\ ReadDone => out = Read3dSequential(stack, call.key)
    /\ (ReadDone /\ ~IsErr(out) /\ NormKey(call.key)[1].kind = "slice") =>
          LET idxs == BandIdxs(NormKey(call.key)[1], Len(stack.readers))
          IN \A k \in 1..Len(idxs) :
                /\ Slot(out, k, Len(idxs)) =
                      RasterReaderGetItem(stack.readers[idxs[k] + 1],
                                          NormKey(call.key)[2], NormKey(call.key)[3]).data
                /\ \A j \in 1..Len(Slot(out, k, Len(idxs))) :
                      FileOfValue(Slot(out, k, Len(idxs))[j]) = stack.file_list[idxs[k] + 1]

\* A threaded read of at least two bands and a window of several pixels has
\* returned, after a younger task ended before an older one.
C1_Witness ==
    /\ ReadDone /\ ~IsErr(out)
    /\ stack.num_threads > 1
    /\ overtaken
    /\ NormKey(call.key)[1].kind = "slice"
    /\ Len(band_idxs) >= 2
    /\ Len(out.data) > Len(band_idxs)

\* The shape (n, h, w) with every axis of length 1 left out
SqueezedNHW(n, h, w) ==
    (IF n = 1 THEN <<>> ELSE <<n>>) \o (IF h = 1 THEN <<>> ELSE <<h>>)
        \o (IF w = 1 THEN <<>> ELSE <<w>>)

\* A key naming the window a:b (or the single pixel a, as a:a+1) inside an
\* axis of the given size
IsWindowKey(k, size) ==
    \/ k.kind = "int" /\ k.start \in 0..(size - 1)
    \/ k.kind = "slice" /\ k.step = NoneVal /\ k.start # NoneVal /\ k.stop # NoneVal
         /\ 0 <= k.start /\ k.start < k.stop /\ k.stop <= size

WindowLen(k) == IF k.kind = "int" THEN 1 ELSE k.stop - k.start

FullBandWindowCall ==
    /\ pc = "done" /\ call.op = "getitem" /\ Len(call.key) = 3
    /\ call.key[1] = FullSlice
    /\ IsWindowKey(call.key[2], Rows) /\ IsWindowKey(call.key[3], Cols)
    /\ \A i \in 1..Len(stack.file_list) : Exists(stack.file_list[i])

\* C2: indexing a stack of N files with a full band slice and an in-bounds
\* window (r0:r1, c0:c1) returns an array of shape (N, r1-r0, c1-c0) with
\* exactly the axes of length 1 removed, holding N*(r1-r0)*(c1-c0) elements.
C2_ResultShape ==
    FullBandWindowCall =>
        LET n == Len(stack.file_list)
            h == WindowLen(call.key[2])
            w == WindowLen(call.key[3])
        IN /\ ~IsErr(out)
           /\ out.shape = SqueezedNHW(n, h, w)
           /\ Len(out.data) = n * h * w

\* Such a read has returned with one axis of length 1 behind an axis that is
\* kept (a window of several rows and one column, on several files).
C2_Witness ==
    /\ FullBandWindowCall
    /\ Len(stack.file_list) >= 2
    /\ WindowLen(call.key[2]) >= 2
    /\ WindowLen(call.key[3]) = 1
    /\ Len(out.shape) = 2

\* C3: read_lonlat(lon, lat) of a stack returns what stack[:, row, col]
\* returns for the (row, col) that the first handle's lon/lat-to-pixel
\* conversion gives; element i is handle i's own read at that pixel, and the
\* call fails exactly when one of these reads fails.
C3_ReadLonLat ==
    (pc = "done" /\ call.op = "read_lonlat") =>
        LET rc == lonlat_to_rowcol(stack.readers[1], call.lon, call.lat)
            own(i) == RasterReaderGetItem(stack.readers[i], IntKey(rc[1]), IntKey(rc[2]))
            n == Len(stack.readers)
        IN /\ out = Read3dSequential(stack, <<FullSlice, IntKey(rc[1]), IntKey(rc[2])>>)
           /\ IsErr(out) <=> \E i \in 1..n : IsErr(own(i))
           /\ ~IsErr(out) =>
                 /\ Len(out.data) = n
                 /\ \A i \in 1..n :
                       /\ out.data[i] = own(i).data[1]
                       /\ (rc[1] \in 0..(Rows - 1) /\ rc[2] \in 0..(Cols - 1)) =>
                             out.data[i] = PixelValue(stack.file_list[i], rc[1], rc[2])

\* read_lonlat has returned the series of a pixel off the diagonal, for a
\* stack of several files.
C3_Witness ==
    /\ pc = "done" /\ call.op = "read_lonlat" /\ ~IsErr(out)
    /\ Len(stack.readers) >= 2
    /\ LET rc == lonlat_to_rowcol(stack.readers[1], call.lon, call.lat)
       IN rc[1] # rc[2]

----------------------------------------------------------------------------
(* Properties of from_file_list *)

OpenFailed == \E k \in 1..Len(opened) : opened[k].err \notin {"ok", "pending"}

\* C4: if the open of any member file fails during from_file_list, wherever
\* the file is in the list and in whatever order the parallel opens end, no
\* stack object exists (none made of the files that did open either), and
\* the call ends by raising the error of a failed open.
C4_NoPartialStack ==
    /\ OpenFailed => stack = NoStack
    /\ (OpenFailed /\ pc = "done") => out.err = "RasterioIOError"
    /\ stack # NoStack =>
          /\ \A k \in 1..Len(opened) : opened[k].err = "ok"
          /\ Len(stack.readers) = Len(opened)

\* from_file_list has ended after the open of a file that is not the first
\* of the list failed while an open behind it in the list had succeeded
\* before.
C4_Witness ==
    /\ pc = "done"
    /\ \E k \in 2..Len(opened) :
          /\ opened[k].err = "RasterioIOError"
          /\ \A j \in 1..(k - 1) : opened[j].err = "ok"
          /\ \E m \in (k + 1)..Len(opened) : opened[m].err = "ok"

----------------------------------------------------------------------------
(* Properties of CustomReader.tile *)

TileMade == cr.state = "open" /\ tile_ret # NoImg

Invalid(img, i) == img.masked[i]

\* C5 as claimed: with a mask source, a pixel of the returned tile is invalid
\* if and only if (1) it is invalid in the primary tile, (2) the mask pixel
\* is the mask raster's nodata, or (3) the mask value is below
\* mask_min_value.
C5_AsClaimed ==
    (TileMade /\ cr.mask # "none") =>
        \A i \in 1..TilePixels :
            Invalid(tile_ret, i) <=>
                \/ Invalid(tile_img, i)
                \/ Invalid(mask_layer_img, i)
                \/ (~Invalid(mask_layer_img, i)
                      /\ mask_layer_img.data[i] < cr.mask_min_value)

\* C5 (amended): with a mask source, a pixel of the returned tile is invalid
\* if and only if (1) it is invalid in the primary tile, (2) the mask pixel
\* is the mask raster's nodata or holds the value 0, or (3) the mask value
\* is below mask_min_value.
C5_CombinedMask ==
    (TileMade /\ cr.mask # "none") =>
        \A i \in 1..TilePixels :
            Invalid(tile_ret, i) <=>
                \/ Invalid(tile_img, i)
                \/ Invalid(mask_layer_img, i)
                \/ (~Invalid(mask_layer_img, i) /\ mask_layer_img.data[i] = 0)
                \/ (~Invalid(mask_layer_img, i)
                      /\ mask_layer_img.data[i] < cr.mask_min_value)

\* A masked tile was returned with a pixel that stays valid, its mask value
\* being exactly the threshold, beside a pixel that only the threshold makes
\* invalid.
C5_Witness ==
    /\ TileMade /\ cr.mask # "none"
    /\ \E i \in 1..TilePixels :
          /\ ~Invalid(tile_ret, i)
          /\ mask_layer_img.data[i] = cr.mask_min_value
    /\ \E i \in 1..TilePixels :
          /\ Invalid(tile_ret, i)
          /\ ~Invalid(tile_img, i) /\ ~Invalid(mask_layer_img, i)
          /\ mask_layer_img.data[i] # 0

\* C6: CustomReader.tile never changes data values.  With a mask source the
\* returned tile has the primary tile's data, crs and bounds; without one
\* it is the primary tile itself, whatever mask_min_value is.
C6_DataUnchanged ==
    TileMade =>
        /\ tile_ret.data = tile_img.data
        /\ tile_ret.crs = tile_img.crs
        /\ tile_ret.bounds = tile_img.bounds
        /\ cr.mask = "none" => tile_ret = tile_img

\* A masked tile was returned in which a pixel with a non-zero value, valid
\* in the primary tile, has become invalid.
C6_Witness ==
    /\ TileMade /\ cr.mask # "none"
    /\ \E i \in 1..TilePixels :
          /\ Invalid(tile_ret, i) /\ ~Invalid(tile_img, i)
          /\ tile_img.data[i] # 0

MaskFailed == cr.mask # "none" /\ ~(CanOpen(cr.mask) /\ CanRead(cr.mask))

\* C15: when a mask source is named but cannot be opened or read, the tile
\* request ends in an error and returns no tile: no reader is made for a
\* mask that cannot be opened, and a tile asked of a reader whose mask
\* cannot be read raises.  A returned tile is unmasked by the mask raster
\* only when no mask source was named.
C15_MaskFailureFails ==
    /\ MaskFailed => tile_ret = NoImg
    /\ (cr.mask # "none" /\ ~CanOpen(cr.mask)) =>
          (cr.state = "failed" /\ tile_err # "none" /\ tile_img = NoImg)
    /\ (MaskFailed /\ tile_img # NoImg) => tile_err # "none"
    /\ tile_ret # NoImg =>
          \/ cr.mask = "none" /\ tile_ret = tile_img
          \/ /\ cr.mask # "none" /\ mask_layer_img # NoImg
             /\ tile_ret.masked = CombinedMask(tile_img, mask_layer_img, cr.mask_min_value)

\* A tile was asked of a reader whose mask source opens but cannot be
\* read; the primary tile was decoded with a valid pixel, and the request
\* raised.
C15_Witness ==
    /\ cr.state = "open" /\ cr.mask = "corrupt.tif"
    /\ tile_img # NoImg /\ \E i \in 1..TilePixels : ~Invalid(tile_img, i)
    /\ tile_err # "none" /\ tile_ret = NoImg

----------------------------------------------------------------------------
(* Properties of the tile algorithms *)

\* C7: Phase and Amplitude mark every pixel whose complex input value is
\* 0+0i as invalid in their output.
C7_ZeroInvalid ==
    alg.name \in {"phase", "amplitude"} =>
        \A i \in 1..AlgPixels : alg_in.data[i] = <<0, 0>> => alg_out.masked[i]

\* Phase or Amplitude ran on a tile with a pixel 0+0i that was valid in the
\* input, beside a pixel that stays valid.
C7_Witness ==
    /\ alg.name \in {"phase", "amplitude"}
    /\ \E i \in 1..AlgPixels :
          alg_in.data[i] = <<0, 0>> /\ ~alg_in.masked[i] /\ alg_out.masked[i]
    /\ \E i \in 1..AlgPixels : ~alg_out.masked[i]

NanShift(flag) == alg.name = "shift" /\ IsNaN(alg.shift) /\ alg.nan_to_zero = flag

\* C8: Shift with offset NaN and nan_to_zero set returns the tile it was
\* given: same values, same validity mask, same crs and bounds.
C8_NanShiftAsZero ==
    NanShift(TRUE) =>
        /\ alg_out.data = alg_in.data
        /\ alg_out.masked = alg_in.masked
        /\ alg_out.crs = alg_in.crs
        /\ alg_out.bounds = alg_in.bounds

\* Such a Shift ran on a tile with a valid non-zero value and a masked pixel.
C8_Witness ==
    /\ NanShift(TRUE)
    /\ \E i \in 1..AlgPixels : ~alg_in.masked[i] /\ alg_in.data[i] = 2
    /\ \E i \in 1..AlgPixels : alg_in.masked[i]

\* C9 as claimed: Shift with offset NaN and nan_to_zero False marks every
\* pixel of its output invalid in the validity mask.
C9_AsClaimed ==
    NanShift(FALSE) => \A i \in 1..AlgPixels : alg_out.masked[i]

\* C9 (amended): Shift with offset NaN and nan_to_zero False returns a tile
\* in which every pixel that was valid in the input holds NaN; the validity
\* mask is the input's, unchanged.
C9_NanShiftPoisons ==
    NanShift(FALSE) =>
        /\ \A i \in 1..AlgPixels : ~alg_in.masked[i] => IsNaN(alg_out.data[i])
        /\ alg_out.masked = alg_in.masked

\* Such a Shift ran on a tile with a valid number, which is now NaN and
\* still marked valid.
C9_Witness ==
    /\ NanShift(FALSE)
    /\ \E i \in 1..AlgPixels :
          /\ ~alg_in.masked[i] /\ ~IsNaN(alg_in.data[i])
          /\ IsNaN(alg_out.data[i]) /\ ~alg_out.masked[i]

C11_RewrapIdempotent ==
    (alg.name = "rewrap" /\ wrapped # NoImg) => alg_out = wrapped

\* Rewrap ran again on rewrap(x) moved by a turn or more, x holding a value
\* outside (-pi, pi] and the value +pi.
C11_Witness ==
    /\ alg.name = "rewrap" /\ wrapped # NoImg
    /\ alg_in # wrapped
    /\ \E i \in 1..AlgPixels : wrapped.data[i] = Pi
    /\ \E i \in 1..AlgPixels : wrapped.data[i] < 0

----------------------------------------------------------------------------
(* Properties of the constructed stack *)

StackMade == pc = "done" /\ stack # NoStack /\ open_args # NoArgs

\* What the member files of the stack report as their nodata
Reported == [i \in 1..Len(stack.readers) |-> FileNodata(stack.readers[i].filename)]

MembersAgree == \A i, j \in 1..Len(stack.readers) : Reported[i] = Reported[j]

\* A read of the whole raster through readers[i] masks exactly the pixels
\* that hold the nodata its file declares.
MasksLocally(i) ==
    LET a == RasterReaderGetItem(stack.readers[i], FullSlice, FullSlice)
    IN \A p \in 1..Len(a.data) : a.mask[p] = (a.data[p] = Reported[i])

\* C12 as claimed: after from_file_list (called without a nodata of its
\* own) the stack-wide nodata is v when every member file reports the same
\* nodata v and is unset when they disagree, and a read through the handle
\* of a file that declares a nodata value masks the pixels holding it.
C12_AsClaimed ==
    (StackMade /\ open_args.nodata = NoneVal) =>
        /\ stack.nodata = (IF MembersAgree THEN Reported[1] ELSE NoneVal)
        /\ \A i \in 1..Len(stack.readers) :
              Reported[i] \notin {NoneVal, NaN} => MasksLocally(i)

\* The same with the files that declare NaN left out: the stack-wide
\* nodata is the one the members share, and unset when they disagree.
C12_NumbersAgree ==
    (StackMade /\ open_args.nodata = NoneVal
        /\ \A i \in 1..Len(stack.readers) : Reported[i] # NaN) =>
        /\ stack.nodata = (IF MembersAgree THEN Reported[1] ELSE NoneVal)
        /\ \A i \in 1..Len(stack.readers) : Reported[i] # NoneVal => MasksLocally(i)

\* A stack of two or more files that all declare NaN was made and its
\* nodata is unset.
C12_Witness ==
    /\ StackMade /\ open_args.nodata = NoneVal
    /\ Len(stack.readers) >= 2
    /\ \A i \in 1..Len(stack.readers) : Reported[i] = NaN
    /\ stack.nodata = NoneVal

\* The bands a read of the whole stack returns
FullReadBands == Len(BandIdxs(FullSlice, Len(stack.readers)))

Aligned ==
    /\ stack.file_list = open_args.file_list
    /\ Len(stack.readers) = Len(stack.file_list)
    /\ \A i \in 1..Len(stack.readers) : stack.readers[i].filename = stack.file_list[i]
    /\ StackShape(stack)[1] = Len(open_args.file_list)
    /\ FullReadBands = Len(open_args.file_list)

\* C13 as claimed: every stack from_file_list returns, whether bands is an
\* int or a sequence, has one reader per file of file_list, readers[i]
\* opened from file_list[i], so that shape[0], the per-reader dates and the
\* bands of a full read all number len(file_list), in input order.
C13_AsClaimed == StackMade => Aligned

\* The same for calls whose bands has one entry per file (an int is made
\* into such a list).
C13_AlignedBands ==
    (StackMade /\ Len(open_args.bands) = Len(open_args.file_list)) => Aligned

\* A stack was returned whose bands sequence was one short: it has a
\* reader less than it has files, and says shape[0] = len(file_list).
C13_Witness ==
    /\ StackMade
    /\ Len(open_args.bands) < Len(open_args.file_list)
    /\ Len(stack.readers) < Len(stack.file_list)
    /\ StackShape(stack)[1] = Len(stack.file_list)
    /\ FullReadBands < StackShape(stack)[1]

----------------------------------------------------------------------------
(* Requests outside the raster *)

\* A row or column key that reaches past the far edge of an axis
KeyBeyond(k, size) ==
    \/ k.kind = "int" /\ k.start >= size
    \/ k.kind = "slice" /\ k.start # NoneVal /\ k.start >= size
    \/ k.kind = "slice" /\ k.stop # NoneVal /\ k.stop > size

\* The (row, col) that the running read_lonlat resolved
ResolvedRowCol == lonlat_to_rowcol(stack.readers[1], call.lon, call.lat)

\* The running call asks for pixels outside the raster.
OutsideExtent ==
    \/ /\ call.op = "getitem"
       /\ Len(call.key) = 3
       /\ KeyBeyond(call.key[2], Rows) \/ KeyBeyond(call.key[3], Cols)
    \/ /\ call.op = "read_lonlat"
       /\ \/ ResolvedRowCol[1] \notin 0..(Rows - 1)
          \/ ResolvedRowCol[2] \notin 0..(Cols - 1)

\* C14 as claimed: a pixel or window request outside the raster's extent
\* (an index or slice bound beyond the shape, or a lon/lat that resolves to
\* a negative or too-large row/col) ends in an error; it is never answered
\* with pixels of another place or with a smaller or empty array.
C14_AsClaimed == (ReadDone /\ OutsideExtent) => IsErr(out)

\* A read_lonlat whose point lies before the first row or column of the
\* raster returned, without an error, the values of a pixel inside it.
C14_Witness ==
    /\ ReadDone /\ call.op = "read_lonlat"
    /\ ResolvedRowCol[1] < 0 \/ ResolvedRowCol[2] < 0
    /\ ~IsErr(out)
    /\ \E r \in 0..(Rows - 1), c \in 0..(Cols - 1) :
          \A i \in 1..Len(out.data) : out.data[i] = PixelValue(stack.file_list[i], r, c)

----------------------------------------------------------------------------
(* Properties of the RasterGroup and of chart_point *)

Iso(d) == strftime(d, "%Y-%m-%d")

AllPairs == \A i \in 1..Len(rg.dates) : Len(rg.dates[i]) = 2

SharedReference == Cardinality({rg.dates[i][1] : i \in 1..Len(rg.dates)}) = 1

UniqueSecondary ==
    \A i, j \in 1..Len(rg.dates) : i # j => rg.dates[i][2] # rg.dates[j][2]

\* C16 as claimed: x_values has one label per file, in file order: the
\* secondary date alone in ISO form when every file's pair has the same
\* reference date and the secondary dates are unique, the full pair
\* "ref_secondary" in ISO form when the reference dates vary and secondary
\* dates repeat.
C16_AsClaimed ==
    (resp.op = "x_values" /\ AllPairs) =>
        /\ Len(resp.x_values) = Len(rg.file_list)
        /\ (SharedReference /\ UniqueSecondary) =>
              \A i \in 1..Len(rg.dates) :
                  resp.x_values[i] = StrLabel(Iso(rg.dates[i][2]))
        /\ (~SharedReference /\ ~UniqueSecondary) =>
              \A i \in 1..Len(rg.dates) :
                  resp.x_values[i] =
                      StrLabel(Iso(rg.dates[i][1]) \o <<"_">> \o Iso(rg.dates[i][2]))

\* What x_values is: for every file, the dates of its name as YYYYMMDD,
\* joined with "_" (the empty string for a name without dates).
C16_CompactLabels ==
    resp.op = "x_values" =>
        /\ Len(resp.x_values) = Len(rg.file_list)
        /\ \A i \in 1..Len(rg.file_list) :
              /\ resp.x_values[i].kind = "str"
              /\ resp.x_values[i].str =
                    SubSeq(rg.file_list[i], 3, Len(rg.file_list[i]) - 4)

\* x_values was asked of a group of two or more files that share their
\* reference date and differ in their secondary dates; the first label is
\* the 17 characters of "YYYYMMDD_YYYYMMDD", not an ISO date.
C16_Witness ==
    /\ resp.op = "x_values" /\ AllPairs
    /\ Len(rg.file_list) >= 2
    /\ SharedReference /\ UniqueSecondary
    /\ Len(resp.x_values[1].str) = 17
    /\ resp.x_values[1] # StrLabel(Iso(rg.dates[1][2]))

NoDatesAvailable ==
    rg.file_date_fmt = "None" \/ \A i \in 1..Len(rg.dates) : rg.dates[i] = <<>>

\* C17 as claimed: when no date is available for the files (file_date_fmt
\* is None, or no name has a date in it), x_values is the indices 0..N-1.
C17_AsClaimed ==
    (resp.op = "x_values" /\ NoDatesAvailable) =>
        resp.x_values = [i \in 1..Len(rg.file_list) |-> IntLabel(i - 1)]

\* x_values was asked of a group of files without a date in their names and
\* is a list of empty strings.
C17_Witness ==
    /\ resp.op = "x_values"
    /\ Len(rg.file_list) >= 2
    /\ \A i \in 1..Len(rg.dates) : rg.dates[i] = <<>>
    /\ \A i \in 1..Len(resp.x_values) : resp.x_values[i] = StrLabel(<<>>)

RefGiven == req.ref_lon # NoneVal /\ req.ref_lat # NoneVal

\* The series chart_point plots: the values read at the point, minus those
\* read at the reference point when both of its coordinates are given
Plotted ==
    [i \in 1..Len(req.values) |->
        IF RefGiven THEN FSub(req.values[i], req.ref_values[i]) ELSE req.values[i]]

\* How many entries of the plotted series up to i are not NaN
Rank(i) == Cardinality({j \in 1..i : ~IsNaN(Plotted[j])})

C20_AsClaimed ==
    alg.name \in {"phase", "amplitude"} =>
        \A i \in 1..AlgPixels : alg_in.masked[i] => alg_out.masked[i]

\* What the output mask is: a pixel is invalid exactly when the derived
\* value is NaN or 0, whether or not the input marked it invalid.
C20_MaskFromDataOnly ==
    alg.name \in {"phase", "amplitude"} =>
        \A i \in 1..AlgPixels :
            alg_out.masked[i] = (IsNaN(alg_out.data[i]) \/ alg_out.data[i] = 0)

\* Phase or Amplitude ran on a tile with a pixel that was invalid in the
\* input and held a value with a non-zero result: it is valid in the output.
C20_Witness ==
    /\ alg.name \in {"phase", "amplitude"}
    /\ \E i \in 1..AlgPixels :
          /\ alg_in.masked[i] /\ alg_in.data[i] = <<-1, 1>>
          /\ ~alg_out.masked[i]

----------------------------------------------------------------------------
(* Properties of the RasterReader's descriptors and nodata *)

HandleReads == {"getitem", "bounds", "lonlat_to_rowcol"}

\* C21 as claimed: a handle made with keep_open=True opened its file once
\* when it was made, holds that one descriptor, and no later read, bounds
\* query or lon/lat conversion opens the file again; a handle made with
\* keep_open=False holds no descriptor between operations, and each of its
\* reads opens the file once and closes it once.
C21_AsClaimed ==
    handle.state = "live" =>
        IF handle.reader.keep_open
        THEN /\ fds = 1
             /\ last_op.op = "from_file" => last_op.opened = 1
             /\ last_op.op \in HandleReads => last_op.opened = 0
        ELSE /\ fds = 0
             /\ last_op.op = "getitem" => (last_op.opened = 1 /\ last_op.closed = 1)

\* A handle that holds its dataset open has answered a read of a window of
\* its raster, and the read opened the file again and read the window twice.
C21_Witness ==
    /\ handle.state = "live" /\ handle.reader.keep_open
    /\ fds = 1
    /\ last_op.op = "getitem" /\ ~IsErr(last_op.out)
    /\ last_op.opened = 1 /\ last_op.reads = 2

\* What C21 says of the bounds queries, of the lon/lat conversions and of
\* the handles made with keep_open=False does hold.
C21_HeldForQueries ==
    handle.state = "live" =>
        /\ fds = (IF handle.reader.keep_open THEN 1 ELSE 0)
        /\ (handle.reader.keep_open /\ last_op.op \in {"bounds", "lonlat_to_rowcol"})
              => last_op.opened = 0
        /\ (~handle.reader.keep_open /\ last_op.op \in HandleReads)
              => (last_op.opened = 1 /\ last_op.closed = 1)

\* C22 as claimed, for from_file_list: a stack made with nodata=v has v as
\* its nodata, and each of its handles masks v in what it reads.
C22_AsClaimed ==
    (StackMade /\ open_args.nodata # NoneVal) =>
        /\ stack.nodata = open_args.nodata
        /\ \A i \in 1..Len(stack.readers) : stack.readers[i].nodata = open_args.nodata

\* A stack was made with nodata=5 of files that declare no nodata: its
\* nodata is unset, and so is the nodata of its handles.
C22_Witness ==
    /\ StackMade /\ open_args.nodata = 5
    /\ stack.nodata = NoneVal
    /\ \A i \in 1..Len(stack.readers) : stack.readers[i].nodata = NoneVal

\* C22 as claimed, for from_file: a handle made with nodata=v, v = 0
\* included, has v as its nodata.
C22_FromFileAsClaimed ==
    (handle.state = "live" /\ handle.nodata_arg # NoneVal) =>
        handle.reader.nodata = handle.nodata_arg

\* The same for every v but 0, which `nodata or ...` takes for no value.
C22_FromFileNonZero ==
    (handle.state = "live" /\ handle.nodata_arg \notin {NoneVal, 0}) =>
        handle.reader.nodata = handle.nodata_arg

----------------------------------------------------------------------------
(* Failed reads and the pools *)

\* The tasks of the running call whose read raises
FailedTasks == {k \in 1..Len(band_idxs) : IsErr(TaskValue(k))}

\* C23: when an indexing operation has ended and the read of one of its
\* selected bands raised, the operation raised the error of such a read,
\* as the read raised it, with one thread and with several; a result array
\* is returned only when no read raised, and then it holds the elements of
\* every selected band.
C23_ReadErrorPropagates ==
    ReadDone =>
        /\ FailedTasks # {} =>
              (IsErr(out) /\ \E k \in FailedTasks : out = TaskValue(k))
        /\ ~IsErr(out) =>
              /\ FailedTasks = {}
              /\ Len(out.data) = Len(FlattenSeq([k \in 1..Len(band_idxs) |-> TaskValue(k).data]))

\* A pooled read of several bands has ended in which the read of one band
\* raised after the reads of the bands before it had succeeded.
C23_Witness ==
    /\ ReadDone /\ stack.num_threads > 1
    /\ Len(band_idxs) >= 2
    /\ \E k \in FailedTasks : k >= 2 /\ \A j \in 1..(k - 1) : j \notin FailedTasks
    /\ out.err = "RasterioIOError"

----------------------------------------------------------------------------
(* The sources of a CustomReader *)

\* C24: the two sources of a CustomReader are open together and released
\* together: while the reader is open, the primary source is open and the
\* mask source is open exactly when one is configured; once close() or
\* __exit__ has run, neither is open; and a further close() changes nothing
\* about the reader but the count of the calls.
C24_ReleasedTogether ==
    /\ [](cr.state = "open" =>
             (cr.dataset_open /\ (cr.mask_open = (cr.mask # "none"))))
    /\ [](cr.state = "closed" => (~cr.dataset_open /\ ~cr.mask_open))
    /\ [][(cr.state = "closed" /\ cr'.state = "closed") =>
             cr' = [cr EXCEPT !.closes = @ + 1]]_vars

\* A reader with a mask source was closed after a tile request raised in
\* it, and closed once more.
C24_Witness ==
    /\ cr.state = "closed" /\ cr.closes = 2
    /\ cr.mask # "none"
    /\ tile_err # "none"
    /\ ~cr.dataset_open /\ ~cr.mask_open

\* C29 as claimed: a CustomReader whose construction failed because its
\* mask source could not be opened has no source open.
C29_AsClaimed == cr.state = "failed" => (~cr.dataset_open /\ ~cr.mask_open)

\* The construction of a reader failed on its mask source and the primary
\* source it had entered into its ExitStack is still open.
C29_Witness ==
    /\ cr.state = "failed" /\ tile_err = "RasterioIOError"
    /\ cr.dataset_open /\ ~cr.mask_open

----------------------------------------------------------------------------
(* Phase and the pixels of angle 0 *)

\* A complex value with no NaN component that is not 0+0i
FiniteNonZero(z) == ~IsNaN(z[1]) /\ ~IsNaN(z[2]) /\ z # <<0, 0>>

\* C28 as claimed: Phase leaves valid every pixel that was valid in its
\* input and whose complex value is finite and not zero, the positive real
\* values (of angle 0) included.
C28_AsClaimed ==
    alg.name = "phase" =>
        \A i \in 1..AlgPixels :
            (FiniteNonZero(alg_in.data[i]) /\ ~alg_in.masked[i]) => ~alg_out.masked[i]

\* The same for the values whose angle is not 0.
C28_NonZeroAngle ==
    alg.name = "phase" =>
        \A i \in 1..AlgPixels :
            (FiniteNonZero(alg_in.data[i]) /\ np_angle(alg_in.data[i]) # 0
                /\ ~alg_in.masked[i]) => ~alg_out.masked[i]

\* Phase ran on a tile with a valid pixel of value 1+0i: the pixel is
\* invalid in the output.
C28_Witness ==
    /\ alg.name = "phase"
    /\ \E i \in 1..AlgPixels :
          alg_in.data[i] = <<1, 0>> /\ ~alg_in.masked[i] /\ alg_out.masked[i]

----------------------------------------------------------------------------
(* The thread pools *)

\* The handle a task of the running read indexes
HandleOf(k) == ListPos(band_idxs[k], Len(stack.readers))

----------------------------------------------------------------------------
(* The serving process *)

\* C26 as claimed: once `bowser run -f <rasters-file>` has imported the
\* app, with a rasters file that is not the default and no stack file in
\* the environment, the settings name <rasters-file> as the dataset
\* configuration and it is the file load_data_sources has read.
C26_AsClaimed ==
    (app.state \in {"loaded", "failed"} /\ app.argv_f \notin {"none", DefaultConfig}
        /\ environ.BOWSER_STACK_DATA_FILE = Unset) =>
        /\ app.settings.BOWSER_DATASET_CONFIG_FILE = app.argv_f
        /\ app.state = "loaded" => app.source = app.argv_f

\* `bowser run -f mine.json` serves the datasets of bowser_rasters.json.
C26_Witness ==
    /\ app.state = "loaded" /\ app.argv_f = "mine.json"
    /\ environ.DATASET_CONFIG_FILE = "mine.json"
    /\ app.source = DefaultConfig

\* What decides the file: the variable BOWSER_DATASET_CONFIG_FILE of the
\* environment the process was started in, never the -f option.
C26_OptionIgnored ==
    (app.state \in {"loaded", "failed"} /\ app.argv_f # "none") =>
        app.settings = Settings([environ EXCEPT !.DATASET_CONFIG_FILE = Unset])

\* The server threads that have not ended
Alive == {n \in 1..Len(threads) : threads[n] # "dead"}

\* The step is a call of start() / stop() on the BowserServer.
IsCall(op) == raised'.n = raised.n + 1 /\ raised'.op = op

\* start() and stop() as C27 has them: start() on a started server raises
\* and changes neither the object nor a thread; stop() leaves the object
\* not started and does nothing on one that is not; start() on a server
\* that is not started (a stopped one included) is accepted.
C27_StartStop ==
    /\ [][(IsCall("start") /\ server._server # 0) =>
             (raised'.exc = AlreadyRunning /\ UNCHANGED <<server, threads>>)]_vars
    /\ [][IsCall("stop") => (server'._server = 0 /\ server'._thread = 0)]_vars
    /\ [][(IsCall("stop") /\ server._server = 0) => UNCHANGED <<server, threads>>]_vars
    /\ [][(IsCall("start") /\ server._server = 0) =>
             (raised'.exc = "none" /\ server'._server # 0 /\ server'._thread # 0)]_vars

\* C27 as claimed: at no time has a BowserServer more than one server
\* thread alive, and start() and stop() behave as above.
C27_AsClaimed ==
    /\ [](Cardinality(Alive) <= 1)
    /\ C27_StartStop

\* stop() gave up joining a thread that is still shutting down, start() was
\* accepted again and its thread runs beside the old one.
C27_Witness ==
    /\ raised.op = "start" /\ raised.exc = "none"
    /\ server._thread # 0 /\ threads[server._thread] # "dead"
    /\ \E n \in Alive : n # server._thread

\* C30 as claimed: after start() has raised because the server was not
\* ready in time, the object is not started: no server and no thread are
\* registered, and the next start() is not refused as already running.
C30_AsClaimed ==
    /\ [](raised.exc = FailedToStart => (server._server = 0 /\ server._thread = 0))
    /\ [][(raised.exc = FailedToStart /\ IsCall("start")) =>
             raised'.exc # AlreadyRunning]_vars

\* start() timed out on a server whose app could not load its data, and
\* the start() that followed was refused.
C30_Witness ==
    /\ raised.op = "start" /\ raised.exc = AlreadyRunning /\ raised.n = 2
    /\ server._server # 0 /\ threads[server._thread] = "dead"
    /\ app.state = "failed"

====
